---- MODULE Spec2Model ----
(***************************************************************************)
(* Ionia ingestion API: the credential store and bearer gate of            *)
(* app/auth.py, the session tracker, event deduplicator and HTTP handlers  *)
(* of app/main.py, and the row store adapter of app/sheets.py at its       *)
(* boundary.  A handler is an operator from the tables and the request to  *)
(* its response, the adapter calls it issues and the tables it leaves; one *)
(* action per endpoint runs the gate and then applies the handler.         *)
(***************************************************************************)
EXTENDS Integers, Sequences, FiniteSets, TLC

VARIABLES
    validation_keys,        \* auth_config.validation_keys : key -> team
    api_keys,               \* auth_config.api_keys        : bearer -> team
    validation_key_expires, \* auth_config.validation_key_expires : key -> epoch
    revoked_keys,           \* auth_config.revoked_keys
    used_keys,              \* auth_config.used_keys
    admin_bearer,           \* auth_config.admin_bearer (Optional)
    draft_cache,            \* main.draft_cache   : team -> DraftCache
    game_counters,          \* main.game_counters : team -> date -> int
    event_dedupe,           \* main.event_dedupe  : set of dedupe keys
    enabled,                \* sheets_writer.enabled
    games_rows,             \* rows of the games range of the remote sheet
    now,                    \* the latest reading of the wall clock (epoch seconds)
    accepted,               \* history: dedupe key -> number of 200 answers
    activated,              \* history: validation key -> number of 200 answers
    started,                \* history: <<team, date>> -> sessions created
    finished,               \* history: teams whose last session was finished
    faults,                 \* history: write calls the remote store failed
    threads                 \* the requests in flight: worker -> frame of its handler

cfg   == <<validation_keys, api_keys, validation_key_expires, revoked_keys,
          used_keys, admin_bearer>>
core  == <<draft_cache, game_counters, event_dedupe>>
store == <<enabled, games_rows>>
hist  == <<accepted, activated, started, finished, faults>>
vars  == <<validation_keys, api_keys, validation_key_expires, revoked_keys,
          used_keys, admin_bearer, draft_cache, game_counters, event_dedupe,
          enabled, games_rows, now, accepted, activated, started, finished,
          faults, threads>>

(***************************************************************************)
(* Python values.  Optional[T] is <<>> (None) or <<v>>; a dict is a        *)
(* function whose DOMAIN is its key set.                                   *)
(***************************************************************************)
None == <<>>

Some(v) == <<v>>

EmptyDict == [k \in {} |-> ""]

DictGet(d, k) == IF k \in DOMAIN d THEN Some(d[k]) ELSE None

DictSet(d, k, v) == [x \in DOMAIN d \cup {k} |-> IF x = k THEN v ELSE d[x]]

DictPop(d, k) == [x \in DOMAIN d \ {k} |-> d[x]]

\* truthiness of an Optional[str]: None and "" are falsy
Truthy(o) == o # None /\ o[1] # ""

Count(d, k) == IF k \in DOMAIN d THEN d[k] ELSE 0

(***************************************************************************)
(* str methods used by the gate and by the token and key builders.         *)
(***************************************************************************)
StartsWith(s, p) == Len(s) >= Len(p) /\ SubSeq(s, 1, Len(p)) = p

RECURSIVE FindFrom(_, _, _)
FindFrom(s, p, i) ==
    IF i + Len(p) - 1 > Len(s) THEN 0
    ELSE IF SubSeq(s, i, i + Len(p) - 1) = p THEN i
    ELSE FindFrom(s, p, i + 1)

\* s.replace(p, r, 1)
ReplaceFirst(s, p, r) ==
    LET i == FindFrom(s, p, 1)
    IN  IF i = 0 THEN s
        ELSE SubSeq(s, 1, i - 1) \o r \o SubSeq(s, i + Len(p), Len(s))

IsSpace(c) == c = " "

RECURSIVE LStrip(_)
LStrip(s) ==
    IF Len(s) > 0 /\ IsSpace(SubSeq(s, 1, 1)) THEN LStrip(SubSeq(s, 2, Len(s)))
    ELSE s

RECURSIVE RStrip(_)
RStrip(s) ==
    IF Len(s) > 0 /\ IsSpace(SubSeq(s, Len(s), Len(s)))
    THEN RStrip(SubSeq(s, 1, Len(s) - 1))
    ELSE s

Strip(s) == LStrip(RStrip(s))

LowerChar(c) ==
    CASE c = "A" -> "a" [] c = "B" -> "b" [] c = "C" -> "c" [] c = "D" -> "d"
      [] c = "E" -> "e" [] c = "F" -> "f" [] c = "G" -> "g" [] c = "H" -> "h"
      [] c = "I" -> "i" [] c = "J" -> "j" [] c = "K" -> "k" [] c = "L" -> "l"
      [] c = "M" -> "m" [] c = "N" -> "n" [] c = "O" -> "o" [] c = "P" -> "p"
      [] c = "Q" -> "q" [] c = "R" -> "r" [] c = "S" -> "s" [] c = "T" -> "t"
      [] c = "U" -> "u" [] c = "V" -> "v" [] c = "W" -> "w" [] c = "X" -> "x"
      [] c = "Y" -> "y" [] c = "Z" -> "z" [] OTHER -> c

RECURSIVE Lower(_)
Lower(s) ==
    IF Len(s) = 0 THEN s
    ELSE LowerChar(SubSeq(s, 1, 1)) \o Lower(SubSeq(s, 2, Len(s)))

RECURSIVE Join(_, _)
Join(sep, parts) ==
    IF Len(parts) = 0 THEN ""
    ELSE IF Len(parts) = 1 THEN parts[1]
    ELSE parts[1] \o sep \o Join(sep, Tail(parts))

(***************************************************************************)
(* Inputs and bounds.                                                      *)
(***************************************************************************)
Teams == {"KC", "G2"}

\* uuid.uuid4().hex of a minted bearer
Uuids == {"a1"}

AdminToken == "adm"

RequestKeys == {"K1", "K2", "K4", "KX"}

\* the clock readings of a run are 0..MaxNow
MaxNow == 1

\* the Authorization header of a request: absent, or one of these values
Headers ==
    {None, Some("Basic kc_a1"), Some("Bearer "), Some("Bearer nope"),
     Some("Bearer kc_a1"), Some("Bearer  g2_a1 "), Some("Bearer adm")}

(***************************************************************************)
(* app/auth.py: the credential store.                                      *)
(***************************************************************************)
\* line 108 is reached: the key passes the used, revoked and unknown tests
\* and has an expiry
ReadsClock(key) ==
    /\ key \notin used_keys
    /\ key \notin revoked_keys
    /\ Truthy(DictGet(validation_keys, key))
    /\ DictGet(validation_key_expires, key) # None

\* validate_activation_key testing the revoked set (line 101) before the used
\* set (line 99)
validate_activation_key_revoked_first(key, t) ==
    IF key \in revoked_keys THEN
        [team_id |-> None, error |-> Some("validation key revoked"),
         used |-> used_keys, active |-> validation_keys]
    ELSE IF key \in used_keys THEN
        [team_id |-> None, error |-> Some("validation key already used"),
         used |-> used_keys, active |-> validation_keys]
    ELSE IF ~Truthy(DictGet(validation_keys, key)) THEN
        [team_id |-> None, error |-> Some("invalid or expired validation key"),
         used |-> used_keys, active |-> validation_keys]
    ELSE IF /\ DictGet(validation_key_expires, key) # None
            /\ t >= validation_key_expires[key] THEN
        [team_id |-> None, error |-> Some("validation key expired"),
         used |-> used_keys, active |-> validation_keys]
    ELSE
        [team_id |-> DictGet(validation_keys, key), error |-> None,
         used |-> used_keys \cup {key}, active |-> DictPop(validation_keys, key)]

\* validate_activation_key comparing now > expires_at at line 109
validate_activation_key_strict_expiry(key, t) ==
    IF key \in used_keys THEN
        [team_id |-> None, error |-> Some("validation key already used"),
         used |-> used_keys, active |-> validation_keys]
    ELSE IF key \in revoked_keys THEN
        [team_id |-> None, error |-> Some("validation key revoked"),
         used |-> used_keys, active |-> validation_keys]
    ELSE IF ~Truthy(DictGet(validation_keys, key)) THEN
        [team_id |-> None, error |-> Some("invalid or expired validation key"),
         used |-> used_keys, active |-> validation_keys]
    ELSE IF /\ DictGet(validation_key_expires, key) # None
            /\ t > validation_key_expires[key] THEN
        [team_id |-> None, error |-> Some("validation key expired"),
         used |-> used_keys, active |-> validation_keys]
    ELSE
        [team_id |-> DictGet(validation_keys, key), error |-> None,
         used |-> used_keys \cup {key}, active |-> DictPop(validation_keys, key)]

\* validate_activation_key without lines 111-112: a validated key is neither
\* marked used nor taken out of the active mapping
validate_activation_key_keeps_key(key, t) ==
    IF key \in used_keys THEN
        [team_id |-> None, error |-> Some("validation key already used"),
         used |-> used_keys, active |-> validation_keys]
    ELSE IF key \in revoked_keys THEN
        [team_id |-> None, error |-> Some("validation key revoked"),
         used |-> used_keys, active |-> validation_keys]
    ELSE IF ~Truthy(DictGet(validation_keys, key)) THEN
        [team_id |-> None, error |-> Some("invalid or expired validation key"),
         used |-> used_keys, active |-> validation_keys]
    ELSE IF /\ DictGet(validation_key_expires, key) # None
            /\ t >= validation_key_expires[key] THEN
        [team_id |-> None, error |-> Some("validation key expired"),
         used |-> used_keys, active |-> validation_keys]
    ELSE
        [team_id |-> DictGet(validation_keys, key), error |-> None,
         used |-> used_keys, active |-> validation_keys]

\* the outcome of validate_activation_key at clock reading t: the pair it
\* returns and the used set and active mapping it leaves behind
validate_activation_key(key, t) ==
    IF key \in used_keys THEN
        [team_id |-> None, error |-> Some("validation key already used"),
         used |-> used_keys, active |-> validation_keys]
    ELSE IF key \in revoked_keys THEN
        [team_id |-> None, error |-> Some("validation key revoked"),
         used |-> used_keys, active |-> validation_keys]
    ELSE IF ~Truthy(DictGet(validation_keys, key)) THEN
        [team_id |-> None, error |-> Some("invalid or expired validation key"),
         used |-> used_keys, active |-> validation_keys]
    ELSE IF /\ DictGet(validation_key_expires, key) # None
            /\ t >= validation_key_expires[key] THEN
        [team_id |-> None, error |-> Some("validation key expired"),
         used |-> used_keys, active |-> validation_keys]
    ELSE
        [team_id |-> DictGet(validation_keys, key), error |-> None,
         used |-> used_keys \cup {key}, active |-> DictPop(validation_keys, key)]

\* api_keys is an insertion-ordered dict: a sequence of <<bearer, team>>
RECURSIVE FindExistingFrom(_, _, _)
FindExistingFrom(keys, team_id, i) ==
    IF i > Len(keys) THEN None
    ELSE IF keys[i][2] = team_id THEN Some(keys[i][1])
    ELSE FindExistingFrom(keys, team_id, i + 1)

\* _find_existing_bearer that finds nothing
_find_existing_bearer_finds_none(keys, team_id) == None

_find_existing_bearer(keys, team_id) == FindExistingFrom(keys, team_id, 1)

ApiKeysSet(keys, bearer, team_id) ==
    IF \E i \in 1..Len(keys) : keys[i][1] = bearer
    THEN [i \in 1..Len(keys) |->
            IF keys[i][1] = bearer THEN <<bearer, team_id>> ELSE keys[i]]
    ELSE Append(keys, <<bearer, team_id>>)

\* the bearer issue_bearer_for_team returns and the token table it leaves
issue_bearer_for_team(keys, team_id, hex) ==
    LET existing == _find_existing_bearer(keys, team_id)
    IN  IF Truthy(existing)
        THEN [bearer |-> existing[1], api_keys |-> keys]
        ELSE LET bearer == Lower(team_id) \o "_" \o hex
             IN  [bearer |-> bearer, api_keys |-> ApiKeysSet(keys, bearer, team_id)]

resolve_team_id(bearer) ==
    IF \E i \in 1..Len(api_keys) : api_keys[i][1] = bearer
    THEN Some(api_keys[CHOOSE i \in 1..Len(api_keys) : api_keys[i][1] = bearer][2])
    ELSE None

\* is_admin_bearer accepting every bearer once an admin token is configured
is_admin_bearer_accepts_any(bearer) == Truthy(admin_bearer)

is_admin_bearer(bearer) ==
    IF ~Truthy(admin_bearer) THEN FALSE ELSE bearer = admin_bearer[1]

(***************************************************************************)
(* app/auth.py: BearerAuthMiddleware.dispatch.  The verdict on a request:  *)
(* pass (call_next) with the identity attached, or the error answered.     *)
(***************************************************************************)
public_paths == {"/activate"}

Pass(team_id, is_admin) ==
    [pass |-> TRUE, status |-> 0, error |-> "", team_id |-> team_id,
     is_admin |-> is_admin]

Deny(status, error) ==
    [pass |-> FALSE, status |-> status, error |-> error, team_id |-> None,
     is_admin |-> FALSE]

\* dispatch without the empty-token test of lines 163-164
dispatch_skips_empty_token(path, header) ==
    IF \/ path \in public_paths
       \/ StartsWith(path, "/docs")
       \/ StartsWith(path, "/openapi")
       \/ StartsWith(path, "/redoc")
    THEN Pass(None, FALSE)
    ELSE
    LET auth_header == IF header = None THEN "" ELSE header[1]
        bearer == Strip(ReplaceFirst(auth_header, "Bearer ", ""))
    IN  IF ~StartsWith(auth_header, "Bearer ") THEN Deny(401, "missing bearer token")
        ELSE IF StartsWith(path, "/admin/") THEN
            IF ~Truthy(admin_bearer) THEN Deny(503, "admin bearer not configured")
            ELSE IF ~is_admin_bearer(bearer) THEN Deny(401, "invalid admin bearer")
            ELSE Pass(None, TRUE)
        ELSE IF ~Truthy(resolve_team_id(bearer)) THEN Deny(401, "invalid bearer token")
        ELSE Pass(resolve_team_id(bearer), FALSE)

dispatch(path, header) ==
    IF \/ path \in public_paths
       \/ StartsWith(path, "/docs")
       \/ StartsWith(path, "/openapi")
       \/ StartsWith(path, "/redoc")
    THEN Pass(None, FALSE)
    ELSE
    LET auth_header == IF header = None THEN "" ELSE header[1]
        bearer == Strip(ReplaceFirst(auth_header, "Bearer ", ""))
    IN  IF ~StartsWith(auth_header, "Bearer ") THEN Deny(401, "missing bearer token")
        ELSE IF bearer = "" THEN Deny(401, "missing bearer token")
        ELSE IF StartsWith(path, "/admin/") THEN
            IF ~Truthy(admin_bearer) THEN Deny(503, "admin bearer not configured")
            ELSE IF ~is_admin_bearer(bearer) THEN Deny(401, "invalid admin bearer")
            ELSE Pass(None, TRUE)
        ELSE IF ~Truthy(resolve_team_id(bearer)) THEN Deny(401, "invalid bearer token")
        ELSE Pass(resolve_team_id(bearer), FALSE)

(***************************************************************************)
(* app/sheets.py: the row store adapter at its boundary.  A write call is  *)
(* given the number of its leading attempts the remote API fails (fails);  *)
(* an append to a range of `rows` rows reports the row after the last.     *)
(***************************************************************************)
MaxAttempts == 3

\* the remote API fails no attempt of a call, or every attempt
StoreFails == {0, MaxAttempts}

\* the retry loop giving up after the first failed attempt
RetryLoop_gives_up_early(attempt, fails) ==
    IF attempt < fails
    THEN [ok |-> FALSE, attempts |-> attempt + 1]
    ELSE [ok |-> TRUE, attempts |-> attempt + 1]

\* `for attempt in range(3)` of _append_row and _update_row, entered at
\* `attempt` against a remote API that fails the first `fails` attempts of the
\* call: whether an attempt succeeded, and the attempts made
RECURSIVE RetryLoop(_, _)
RetryLoop(attempt, fails) ==
    IF attempt >= MaxAttempts THEN [ok |-> FALSE, attempts |-> attempt]
    ELSE IF attempt >= fails THEN [ok |-> TRUE, attempts |-> attempt + 1]
    ELSE RetryLoop(attempt + 1, fails)

\* GoogleSheetsWriter._append_row: the row index, or None
_append_row(rows, fails) ==
    IF ~enabled THEN None
    ELSE IF RetryLoop(0, fails).ok THEN Some(rows + 1)
    ELSE None

\* GoogleSheetsWriter._update_row: True or False
_update_row(fails) ==
    IF ~enabled THEN FALSE
    ELSE RetryLoop(0, fails).ok

(***************************************************************************)
(* app/main.py: columns and row helpers.                                   *)
(***************************************************************************)
GAMES_COLUMNS ==
    <<"game_id", "date", "opposite_team", "game_number", "patch", "tr",
      "side", "win",
      "BB1", "BB2", "BB3", "BP1", "BP2", "BP3", "BB4", "BB5", "BP4", "BP5",
      "RB1", "RB2", "RB3", "RP1", "RP2", "RP3", "RB4", "RB5", "RP4", "RP5",
      "BT", "BJ", "BM", "BA", "BS", "RT", "RJ", "RM", "RA", "RS">>

GAME_COLUMNS_SET == {GAMES_COLUMNS[i] : i \in 1..Len(GAMES_COLUMNS)}

POSITION_COLUMNS == {"BT", "BJ", "BM", "BA", "BS", "RT", "RJ", "RM", "RA", "RS"}

\* _draft_richness counting every key of the payload, empty values included
_draft_richness_counts_keys(draft) == Cardinality(DOMAIN draft)

_draft_richness(draft) == Cardinality({k \in DOMAIN draft : draft[k] # ""})

_build_row(row_data) ==
    [i \in 1..Len(GAMES_COLUMNS) |->
        IF GAMES_COLUMNS[i] \in DOMAIN row_data
        THEN row_data[GAMES_COLUMNS[i]] ELSE ""]

\* _update_row_data without the test of line 156: every key is merged
_update_row_data_keeps_all(row_data, updates) ==
    [k \in DOMAIN row_data \cup DOMAIN updates |->
        IF k \in DOMAIN updates THEN updates[k] ELSE row_data[k]]

_update_row_data(row_data, updates) ==
    LET keys == DOMAIN updates \cap GAME_COLUMNS_SET
    IN  [k \in DOMAIN row_data \cup keys |->
            IF k \in keys THEN updates[k] ELSE row_data[k]]

_dedupe_key(parts) == Join("|", parts)

\* _get_game_counter: the counters it leaves (setdefault, then increment)
_get_game_counter(team_id, date) ==
    LET team_counters == IF team_id \in DOMAIN game_counters
                         THEN game_counters[team_id] ELSE EmptyDict
    IN  DictSet(game_counters, team_id,
                DictSet(team_counters, date, Count(team_counters, date) + 1))

(***************************************************************************)
(* Responses, and the outcome of a handler: the response, the adapter      *)
(* calls it issued in order, and the tables as it leaves them.             *)
(***************************************************************************)
Resp(status, error, message, game_id, game_number, bearer) ==
    [status |-> status, error |-> error, message |-> message,
     game_id |-> game_id, game_number |-> game_number, bearer |-> bearer]

_error(status, msg) == Resp(status, Some(msg), None, None, None, None)

Ack == Resp(200, None, None, None, None, None)

GameSessionResponse(message, game_id, game_number) ==
    Resp(200, None, message, game_id, game_number, None)

GameIdResponse(game_id) == Resp(200, None, None, Some(game_id), None, None)

ActivationResponse(bearer) == Resp(200, None, None, None, None, Some(bearer))

Write(call, row) == [call |-> call, row |-> row]
\* sheets_writer.update_game_row(row_index, row)
UpdateWrite(row_index, row) ==
    [call |-> "update_game_row", row_index |-> row_index, row |-> row]

Out(resp, writes, dc, gc, ed, rows) ==
    [resp |-> resp, writes |-> writes, draft_cache |-> dc, game_counters |-> gc,
     event_dedupe |-> ed, games_rows |-> rows]

\* the handler returns without touching a table or the store
Return(resp) == Out(resp, <<>>, draft_cache, game_counters, event_dedupe, games_rows)

\* sheets_writer.append_dedupe_row is called only when the writer is enabled
DedupeWrite(dedupe_key) ==
    IF enabled THEN <<Write("append_dedupe_row", <<dedupe_key>>)>> ELSE <<>>

\* the write-through failing whenever the append returns no locator, whether
\* or not the writer is enabled
PersistRow_needs_locator(cache, fails) ==
    IF cache.row_index # None
    THEN [write |-> UpdateWrite(cache.row_index[1], _build_row(cache.row_data)),
          ok |-> _update_row(fails),
          error |-> "failed to update game row in sheets",
          row_index |-> cache.row_index,
          rows |-> games_rows]
    ELSE [write |-> Write("append_game_row", _build_row(cache.row_data)),
          ok |-> _append_row(games_rows, fails) # None,
          error |-> "failed to write game row to sheets",
          row_index |-> _append_row(games_rows, fails),
          rows |-> IF _append_row(games_rows, fails) = None
                   THEN games_rows ELSE games_rows + 1]

\* the write-through appending a new row whether or not the session has a
\* locator
PersistRow_always_appends(cache, fails) ==
    [write |-> Write("append_game_row", _build_row(cache.row_data)),
     ok |-> ~(enabled /\ _append_row(games_rows, fails) = None),
     error |-> "failed to write game row to sheets",
     row_index |-> _append_row(games_rows, fails),
     rows |-> IF _append_row(games_rows, fails) = None
              THEN games_rows ELSE games_rows + 1]

\* the write-through of a session's row (main.py 253-260, 276-283, 300-307):
\* an update in place when the session has a locator, otherwise an append
PersistRow(cache, fails) ==
    IF cache.row_index # None
    THEN [write |-> UpdateWrite(cache.row_index[1], _build_row(cache.row_data)),
          ok |-> ~(enabled /\ ~_update_row(fails)),
          error |-> "failed to update game row in sheets",
          row_index |-> cache.row_index,
          rows |-> games_rows]
    ELSE [write |-> Write("append_game_row", _build_row(cache.row_data)),
          ok |-> ~(enabled /\ _append_row(games_rows, fails) = None),
          error |-> "failed to write game row to sheets",
          row_index |-> _append_row(games_rows, fails),
          rows |-> IF _append_row(games_rows, fails) = None
                   THEN games_rows ELSE games_rows + 1]

\* the session test without the comparison of game ids
NoActiveGame_ignores_game_id(cache, game_id) == cache = None

NoActiveGame(cache, game_id) == cache = None \/ cache[1].game_id # game_id

\* client_heartbeat answering a team without a session as the session
\* handlers do, with an error
client_heartbeat_fails_without_session(team_id) ==
    LET cache == DictGet(draft_cache, team_id)
    IN  IF cache = None
        THEN Return(_error(400, "no active game for team"))
        ELSE Return(GameSessionResponse(None, Some(cache[1].game_id),
                                        Some(cache[1].game_number)))

(***************************************************************************)
(* POST /client/heartbeat (main.py 185-193)                                *)
(***************************************************************************)
client_heartbeat(team_id) ==
    LET cache == DictGet(draft_cache, team_id)
    IN  IF cache = None
        THEN Return(GameSessionResponse(Some("no ongoing game"), None, None))
        ELSE Return(GameSessionResponse(None, Some(cache[1].game_id),
                                        Some(cache[1].game_number)))

\* champ_select_start storing the session (lines 222-230) before the append
\* of lines 219-221: a 502 leaves a session behind
champ_select_start_stores_first(team_id, date, new_id, fails) ==
    LET cache == DictGet(draft_cache, team_id)
    IN  IF cache # None
        THEN Return(GameSessionResponse(Some("game already active"),
                                        Some(cache[1].game_id),
                                        Some(cache[1].game_number)))
        ELSE
          LET counters    == _get_game_counter(team_id, date)
              game_number == counters[team_id][date]
              row_data    == ("game_id" :> new_id @@ "date" :> date
                              @@ "opposite_team" :> "T1"
                              @@ "game_number" :> ToString(game_number)
                              @@ "patch" :> "14.1" @@ "tr" :> "TR1"
                              @@ "side" :> "BLUE")
              row_index   == _append_row(games_rows, fails)
              writes      == <<Write("append_game_row", _build_row(row_data))>>
              stored      == DictSet(draft_cache, team_id,
                               [game_id |-> new_id, draft_count |-> 0,
                                row_index |-> row_index, row_data |-> row_data,
                                game_number |-> game_number, date |-> date])
          IN  IF enabled /\ row_index = None
              THEN Out(_error(502, "failed to write game row to sheets"), writes,
                       stored, counters, event_dedupe, games_rows)
              ELSE Out(GameSessionResponse(None, Some(new_id), Some(game_number)),
                       writes, stored, counters, event_dedupe,
                       IF row_index = None THEN games_rows ELSE games_rows + 1)

\* champ_select_start drawing the sequence number (line 209) before the test
\* for a live session (lines 200-206)
champ_select_start_counts_first(team_id, date, new_id, fails) ==
    LET cache    == DictGet(draft_cache, team_id)
        counters == _get_game_counter(team_id, date)
    IN  IF cache # None
        THEN Out(GameSessionResponse(Some("game already active"),
                                     Some(cache[1].game_id),
                                     Some(cache[1].game_number)),
                 <<>>, draft_cache, counters, event_dedupe, games_rows)
        ELSE
          LET game_number == counters[team_id][date]
              row_data    == ("game_id" :> new_id @@ "date" :> date
                              @@ "opposite_team" :> "T1"
                              @@ "game_number" :> ToString(game_number)
                              @@ "patch" :> "14.1" @@ "tr" :> "TR1"
                              @@ "side" :> "BLUE")
              row_index   == _append_row(games_rows, fails)
              writes      == <<Write("append_game_row", _build_row(row_data))>>
          IN  IF enabled /\ row_index = None
              THEN Out(_error(502, "failed to write game row to sheets"), writes,
                       draft_cache, counters, event_dedupe, games_rows)
              ELSE Out(GameSessionResponse(None, Some(new_id), Some(game_number)),
                       writes,
                       DictSet(draft_cache, team_id,
                               [game_id |-> new_id, draft_count |-> 0,
                                row_index |-> row_index, row_data |-> row_data,
                                game_number |-> game_number, date |-> date]),
                       counters, event_dedupe,
                       IF row_index = None THEN games_rows ELSE games_rows + 1)

(***************************************************************************)
(* POST /events/champ_select_start (main.py 196-231)                       *)
(***************************************************************************)
champ_select_start(team_id, date, new_id, fails) ==
    LET cache == DictGet(draft_cache, team_id)
    IN  IF cache # None
        THEN Return(GameSessionResponse(Some("game already active"),
                                        Some(cache[1].game_id),
                                        Some(cache[1].game_number)))
        ELSE
          LET counters    == _get_game_counter(team_id, date)
              game_number == counters[team_id][date]
              row_data    == ("game_id" :> new_id @@ "date" :> date
                              @@ "opposite_team" :> "T1"
                              @@ "game_number" :> ToString(game_number)
                              @@ "patch" :> "14.1" @@ "tr" :> "TR1"
                              @@ "side" :> "BLUE")
              row_index   == _append_row(games_rows, fails)
              writes      == <<Write("append_game_row", _build_row(row_data))>>
          IN  IF enabled /\ row_index = None
              THEN Out(_error(502, "failed to write game row to sheets"), writes,
                       draft_cache, counters, event_dedupe, games_rows)
              ELSE Out(GameSessionResponse(None, Some(new_id), Some(game_number)),
                       writes,
                       DictSet(draft_cache, team_id,
                               [game_id |-> new_id, draft_count |-> 0,
                                row_index |-> row_index, row_data |-> row_data,
                                game_number |-> game_number, date |-> date]),
                       counters, event_dedupe,
                       IF row_index = None THEN games_rows ELSE games_rows + 1)

\* draft_complete advancing the draft counter (line 261) before the write of
\* lines 253-260: a 502 leaves the counter advanced
draft_complete_counts_before_write(team_id, game_id, draft, fails) ==
    LET cache       == DictGet(draft_cache, team_id)
        draft_count == _draft_richness(draft)
    IN  IF NoActiveGame(cache, game_id)
        THEN Return(_error(400, "no active game for team"))
        ELSE IF draft_count <= cache[1].draft_count
        THEN Return(GameIdResponse(cache[1].game_id))
        ELSE
          LET merged == [cache[1] EXCEPT !.row_data = _update_row_data(@, draft),
                                         !.draft_count = draft_count]
              w      == PersistRow(merged, fails)
              kept   == [merged EXCEPT !.row_index = w.row_index]
          IN  IF ~w.ok
              THEN Out(_error(502, w.error), <<w.write>>,
                       DictSet(draft_cache, team_id, kept),
                       game_counters, event_dedupe, w.rows)
              ELSE Out(GameIdResponse(cache[1].game_id), <<w.write>>,
                       DictSet(draft_cache, team_id, kept),
                       game_counters, event_dedupe, w.rows)

(***************************************************************************)
(* POST /events/draft_complete (main.py 234-262)                           *)
(***************************************************************************)
draft_complete(team_id, game_id, draft, fails) ==
    LET cache       == DictGet(draft_cache, team_id)
        draft_count == _draft_richness(draft)
    IN  IF NoActiveGame(cache, game_id)
        THEN Return(_error(400, "no active game for team"))
        ELSE IF draft_count <= cache[1].draft_count
        THEN Return(GameIdResponse(cache[1].game_id))
        ELSE
          LET merged == [cache[1] EXCEPT !.row_data = _update_row_data(@, draft)]
              w      == PersistRow(merged, fails)
              kept   == [merged EXCEPT !.row_index = w.row_index]
          IN  IF ~w.ok
              THEN Out(_error(502, w.error), <<w.write>>,
                       DictSet(draft_cache, team_id, kept),
                       game_counters, event_dedupe, w.rows)
              ELSE Out(GameIdResponse(cache[1].game_id), <<w.write>>,
                       DictSet(draft_cache, team_id,
                               [kept EXCEPT !.draft_count = draft_count]),
                       game_counters, event_dedupe, w.rows)

\* game_start without the filter of line 274: every whitelisted key of the
\* payload is merged
game_start_merges_all(team_id, game_id, positions, fails) ==
    LET cache      == DictGet(draft_cache, team_id)
        dedupe_key == _dedupe_key(<<team_id, "game_start", game_id>>)
    IN  IF NoActiveGame(cache, game_id)
        THEN Return(_error(400, "no active game for team"))
        ELSE IF dedupe_key \in event_dedupe
        THEN Return(_error(409, "duplicate event"))
        ELSE
          LET merged   == [cache[1] EXCEPT !.row_data = _update_row_data(@, positions)]
              w        == PersistRow(merged, fails)
              kept     == [merged EXCEPT !.row_index = w.row_index]
          IN  IF ~w.ok
              THEN Out(_error(502, w.error), <<w.write>>,
                       DictSet(draft_cache, team_id, kept),
                       game_counters, event_dedupe, w.rows)
              ELSE Out(Ack, <<w.write>> \o DedupeWrite(dedupe_key),
                       DictSet(draft_cache, team_id, kept),
                       game_counters, event_dedupe \cup {dedupe_key}, w.rows)

(***************************************************************************)
(* POST /events/game_start (main.py 265-287)                               *)
(***************************************************************************)
game_start(team_id, game_id, positions, fails) ==
    LET cache      == DictGet(draft_cache, team_id)
        dedupe_key == _dedupe_key(<<team_id, "game_start", game_id>>)
    IN  IF NoActiveGame(cache, game_id)
        THEN Return(_error(400, "no active game for team"))
        ELSE IF dedupe_key \in event_dedupe
        THEN Return(_error(409, "duplicate event"))
        ELSE
          LET filtered == [k \in DOMAIN positions \cap POSITION_COLUMNS |-> positions[k]]
              merged   == [cache[1] EXCEPT !.row_data = _update_row_data(@, filtered)]
              w        == PersistRow(merged, fails)
              kept     == [merged EXCEPT !.row_index = w.row_index]
          IN  IF ~w.ok
              THEN Out(_error(502, w.error), <<w.write>>,
                       DictSet(draft_cache, team_id, kept),
                       game_counters, event_dedupe, w.rows)
              ELSE Out(Ack, <<w.write>> \o DedupeWrite(dedupe_key),
                       DictSet(draft_cache, team_id, kept),
                       game_counters, event_dedupe \cup {dedupe_key}, w.rows)

\* game_finished without the pop of line 308: the session stays in the table
game_finished_keeps_session(team_id, game_id, win, fails) ==
    LET cache      == DictGet(draft_cache, team_id)
        dedupe_key == _dedupe_key(<<team_id, "game_finished", game_id>>)
    IN  IF NoActiveGame(cache, game_id)
        THEN Return(_error(400, "no active game for team"))
        ELSE IF dedupe_key \in event_dedupe
        THEN Return(_error(409, "duplicate event"))
        ELSE
          LET merged == [cache[1] EXCEPT
                           !.row_data = _update_row_data(@, ("win" :> win))]
              w      == PersistRow(merged, fails)
          IN  IF ~w.ok
              THEN Out(_error(502, w.error), <<w.write>>,
                       DictSet(draft_cache, team_id, merged),
                       game_counters, event_dedupe, w.rows)
              ELSE Out(Ack, <<w.write>> \o DedupeWrite(dedupe_key),
                       DictSet(draft_cache, team_id, merged),
                       game_counters, event_dedupe \cup {dedupe_key}, w.rows)

(***************************************************************************)
(* POST /events/game_finished (main.py 290-312)                            *)
(***************************************************************************)
game_finished(team_id, game_id, win, fails) ==
    LET cache      == DictGet(draft_cache, team_id)
        dedupe_key == _dedupe_key(<<team_id, "game_finished", game_id>>)
    IN  IF NoActiveGame(cache, game_id)
        THEN Return(_error(400, "no active game for team"))
        ELSE IF dedupe_key \in event_dedupe
        THEN Return(_error(409, "duplicate event"))
        ELSE
          LET merged == [cache[1] EXCEPT
                           !.row_data = _update_row_data(@, ("win" :> win))]
              w      == PersistRow(merged, fails)
          IN  IF ~w.ok
              THEN Out(_error(502, w.error), <<w.write>>,
                       DictSet(draft_cache, team_id, merged),
                       game_counters, event_dedupe, w.rows)
              ELSE Out(Ack, <<w.write>> \o DedupeWrite(dedupe_key),
                       DictPop(draft_cache, team_id),
                       game_counters, event_dedupe \cup {dedupe_key}, w.rows)

\* stream_ready recording the dedupe key (line 337) before the append of
\* lines 325-335: a 502 leaves the key in the set
stream_ready_records_first(team_id, game_id, role, fails) ==
    LET dedupe_key == _dedupe_key(<<team_id, "stream_ready", game_id, role>>)
        row_index  == _append_row(0, fails)
        writes     == <<Write("append_stream_event", <<team_id, game_id, role>>)>>
    IN  IF dedupe_key \in event_dedupe
        THEN Return(_error(409, "duplicate event"))
        ELSE IF enabled /\ row_index = None
        THEN Out(_error(502, "failed to write stream row to sheets"), writes,
                 draft_cache, game_counters, event_dedupe \cup {dedupe_key},
                 games_rows)
        ELSE Out(Ack, writes \o DedupeWrite(dedupe_key),
                 draft_cache, game_counters, event_dedupe \cup {dedupe_key},
                 games_rows)

(***************************************************************************)
(* POST /events/stream_ready (main.py 315-339)                             *)
(***************************************************************************)
stream_ready(team_id, game_id, role, fails) ==
    LET dedupe_key == _dedupe_key(<<team_id, "stream_ready", game_id, role>>)
        row_index  == _append_row(0, fails)
        writes     == <<Write("append_stream_event", <<team_id, game_id, role>>)>>
    IN  IF dedupe_key \in event_dedupe
        THEN Return(_error(409, "duplicate event"))
        ELSE IF enabled /\ row_index = None
        THEN Out(_error(502, "failed to write stream row to sheets"), writes,
                 draft_cache, game_counters, event_dedupe, games_rows)
        ELSE Out(Ack, writes \o DedupeWrite(dedupe_key),
                 draft_cache, game_counters, event_dedupe \cup {dedupe_key},
                 games_rows)

\* activate consuming the key and issuing the token only once the activation
\* row is written: a 502 leaves the credential tables as they were
activate_commits_after_write(key, hex, t, fails) ==
    LET v == validate_activation_key(key, t)
    IN  IF ~Truthy(v.team_id)
        THEN [resp |-> _error(400, IF Truthy(v.error) THEN v.error[1]
                                   ELSE "invalid or expired validation key"),
              writes |-> <<>>, used_keys |-> v.used, validation_keys |-> v.active,
              api_keys |-> api_keys]
        ELSE
          LET ib  == issue_bearer_for_team(api_keys, v.team_id[1], hex)
              row == _append_row(0, fails)
              writes == <<Write("append_activation_row",
                                <<ib.bearer, v.team_id[1], key>>)>>
          IN  IF enabled /\ row = None
              THEN [resp |-> _error(502, "failed to write activation to sheets"),
                    writes |-> writes, used_keys |-> used_keys,
                    validation_keys |-> validation_keys, api_keys |-> api_keys]
              ELSE [resp |-> ActivationResponse(ib.bearer),
                    writes |-> writes, used_keys |-> v.used,
                    validation_keys |-> v.active, api_keys |-> ib.api_keys]

(***************************************************************************)
(* POST /activate (main.py 164-182), at clock reading t                    *)
(***************************************************************************)
activate(key, hex, t, fails) ==
    LET v == validate_activation_key(key, t)
    IN  IF ~Truthy(v.team_id)
        THEN [resp |-> _error(400, IF Truthy(v.error) THEN v.error[1]
                                   ELSE "invalid or expired validation key"),
              writes |-> <<>>, used_keys |-> v.used, validation_keys |-> v.active,
              api_keys |-> api_keys]
        ELSE
          LET ib  == issue_bearer_for_team(api_keys, v.team_id[1], hex)
              row == _append_row(0, fails)
              writes == <<Write("append_activation_row",
                                <<ib.bearer, v.team_id[1], key>>)>>
          IN  [resp |-> IF enabled /\ row = None
                        THEN _error(502, "failed to write activation to sheets")
                        ELSE ActivationResponse(ib.bearer),
               writes |-> writes, used_keys |-> v.used,
               validation_keys |-> v.active, api_keys |-> ib.api_keys]

(***************************************************************************)
(* Request inputs and the bounds of a run.                                 *)
(***************************************************************************)
\* sessions champ_select_start may open in a run, over all teams and dates
MaxGames == 2

\* dedupe keys the set may hold in a run
MaxEvents == 2

\* write calls the remote store may fail in a run
MaxFaults == 1

\* _generate_game_id: a minute stamp and four hex digits; two games may draw
\* the same identifier
GameIds == {"g_20260107_1200_ab12", "g_20260107_1200_cd34"}

Dates == {"2026-01-07", "2026-01-08"}

\* the payloads are free-form maps: a client may send keys that are no column
\* (an empty "hack" in a draft, a "hack" among the positions) and columns the
\* handler does not own ("win" among the positions)
DraftPayloads ==
    {("BP1" :> "Maokai"),
     ("BP1" :> "Maokai" @@ "BP2" :> "Azir" @@ "hack" :> "")}

PositionPayloads == {("BM" :> "Azir" @@ "win" :> "L" @@ "hack" :> "zz")}

Wins == {"W"}

RequestRoles == {"TOP", "MID"}

StreamGameIds == {"g_20260107_1200_ab12"}

RECURSIVE SumOver(_, _)
SumOver(f, S) ==
    IF S = {} THEN 0
    ELSE LET x == CHOOSE x \in S : TRUE IN f[x] + SumOver(f, S \ {x})

\* the sequence numbers handed out so far, over all teams and dates
TotalGames ==
    SumOver([t \in DOMAIN game_counters |->
                SumOver(game_counters[t], DOMAIN game_counters[t])],
            DOMAIN game_counters)

\* the store outcomes a write call may meet
Fails == IF enabled THEN StoreFails ELSE {0}

Bump(counts, k) == DictSet(counts, k, Count(counts, k) + 1)

(***************************************************************************)
(* The handlers are plain functions, which the framework runs on worker    *)
(* threads: two requests may be in flight at once.  The frame of a request *)
(* holds its position in the handler, its payload and its local variables. *)
(***************************************************************************)
Threads == {1, 2}

IdleThread ==
    [pc |-> "idle", kind |-> "", key |-> "", game_id |-> "", role |-> "",
     date |-> "", team_id |-> "", bearer |-> "", game_number |-> 0,
     row_index |-> None, wrote |-> 0, resp |-> None]

(***************************************************************************)
(* The state after construction (main.py 38-39, 96-115): a fresh install   *)
(* with unused validation keys of one team, the sheets writer enabled or   *)
(* not; or an install without a sheet whose two teams hold bearers from    *)
(* IONIA_API_KEYS.                                                         *)
(***************************************************************************)
FreshInstall ==
    [validation_keys |-> ("K1" :> "KC" @@ "K2" :> "KC" @@ "K4" :> "KC"),
     validation_key_expires |-> ("K2" :> MaxNow),
     revoked_keys |-> {"K4"},
     used_keys |-> {},
     api_keys |-> <<>>,
     admin_bearer |-> Some(AdminToken),
     enabled |-> BOOLEAN]

RunningInstall ==
    [validation_keys |-> EmptyDict,
     validation_key_expires |-> EmptyDict,
     revoked_keys |-> {},
     used_keys |-> {},
     api_keys |-> << <<"kc_a1", "KC">>, <<"g2_a1", "G2">> >>,
     admin_bearer |-> None,
     enabled |-> {FALSE}]

Init ==
    /\ \E dep \in {FreshInstall, RunningInstall} :
          /\ validation_keys = dep.validation_keys
          /\ validation_key_expires = dep.validation_key_expires
          /\ revoked_keys = dep.revoked_keys
          /\ used_keys = dep.used_keys
          /\ api_keys = dep.api_keys
          /\ admin_bearer = dep.admin_bearer
          /\ enabled \in dep.enabled
    /\ games_rows = 0
    /\ draft_cache = EmptyDict
    /\ game_counters = EmptyDict
    /\ event_dedupe = {}
    /\ now = 0
    /\ accepted = EmptyDict
    /\ activated = EmptyDict
    /\ started = EmptyDict
    /\ finished = {}
    /\ faults = 0
    /\ threads = [th \in Threads |-> IdleThread]

(***************************************************************************)
(* The credential tables as the startup load may leave them (auth.py 83-95, *)
(* main.py 100-115): the used set comes from the activations sheet, read  *)
(* when the writer is enabled; the revoked set, the active mapping and the *)
(* expiries come from the environment and the validation keys sheet,       *)
(* independently of each other.                                            *)
(***************************************************************************)
AuthKeys == {"K1", "K2"}

TokenTables ==
    {<<>>,
     << <<"kc_env", "KC">> >>,
     << <<"g2_a1", "G2">> >>,
     << <<"g2_a1", "G2">>, <<"kc_env", "KC">> >>}

InitAuth ==
    /\ enabled \in BOOLEAN
    /\ used_keys \in (IF enabled THEN SUBSET AuthKeys ELSE {{}})
    /\ revoked_keys \in SUBSET AuthKeys
    /\ validation_keys \in UNION {[S -> {"KC"}] : S \in SUBSET AuthKeys}
    /\ validation_key_expires \in UNION {[S -> 0..MaxNow] : S \in SUBSET AuthKeys}
    /\ api_keys \in TokenTables
    /\ admin_bearer = None
    /\ games_rows = 0
    /\ draft_cache = EmptyDict
    /\ game_counters = EmptyDict
    /\ event_dedupe = {}
    /\ now = 0
    /\ accepted = EmptyDict
    /\ activated = EmptyDict
    /\ started = EmptyDict
    /\ finished = {}
    /\ faults = 0
    /\ threads = [th \in Threads |-> IdleThread]

(***************************************************************************)
(* One action per endpoint: the gate, then the handler.                    *)
(***************************************************************************)
\* a main.py handler ran with outcome o
Apply(path, o) ==
    /\ o.resp.status = 502 => faults < MaxFaults
    /\ o.event_dedupe # event_dedupe => Cardinality(event_dedupe) < MaxEvents
    /\ draft_cache' = o.draft_cache
    /\ game_counters' = o.game_counters
    /\ event_dedupe' = o.event_dedupe
    /\ games_rows' = o.games_rows
    /\ faults' = IF o.resp.status = 502 THEN faults + 1 ELSE faults
    /\ UNCHANGED <<cfg, enabled, now, threads>>

\* the gate answered the request itself (auth.py 160-178): call_next is not
\* reached, so no handler runs
Reject(d) == Return(_error(d.status, d.error))

Rejected(path, d) ==
    /\ Apply(path, Reject(d))
    /\ UNCHANGED <<accepted, activated, started, finished>>

Activate ==
    \E key \in RequestKeys, hex \in Uuids, fails \in Fails :
    \E t \in (IF ReadsClock(key) THEN now..MaxNow ELSE {now}) :
      LET path == "/activate"
          d    == dispatch(path, None)
          o    == activate(key, hex, t, fails)
      IN  IF ~d.pass THEN Rejected(path, d)
          ELSE /\ o.resp.status = 502 => faults < MaxFaults
               /\ used_keys' = o.used_keys
               /\ validation_keys' = o.validation_keys
               /\ api_keys' = o.api_keys
               /\ now' = t
               /\ activated' = IF o.resp.status = 200 THEN Bump(activated, key)
                               ELSE activated
               /\ faults' = IF o.resp.status = 502 THEN faults + 1 ELSE faults
               /\ UNCHANGED <<validation_key_expires, revoked_keys, admin_bearer,
                              core, store, accepted, started, finished, threads>>

ClientHeartbeat ==
    \E header \in Headers :
      LET path == "/client/heartbeat"
          d    == dispatch(path, header)
      IN  IF ~d.pass THEN Rejected(path, d)
          ELSE /\ Apply(path, client_heartbeat(d.team_id[1]))
               /\ UNCHANGED <<accepted, activated, started, finished>>

ChampSelectStart ==
    \E header \in Headers :
      LET path == "/events/champ_select_start"
          d    == dispatch(path, header)
      IN  IF ~d.pass THEN Rejected(path, d)
          ELSE \E date \in Dates, new_id \in GameIds, fails \in Fails :
            LET team_id == d.team_id[1]
                o       == champ_select_start(team_id, date, new_id, fails)
                created == team_id \notin DOMAIN draft_cache /\ o.resp.status = 200
            IN  /\ o.game_counters # game_counters => TotalGames < MaxGames
                /\ Apply(path, o)
                /\ started' = IF created THEN Bump(started, <<team_id, date>>)
                              ELSE started
                /\ finished' = IF created THEN finished \ {team_id} ELSE finished
                /\ UNCHANGED <<accepted, activated>>

DraftComplete ==
    \E header \in Headers :
      LET path == "/events/draft_complete"
          d    == dispatch(path, header)
      IN  IF ~d.pass THEN Rejected(path, d)
          ELSE \E game_id \in GameIds, draft \in DraftPayloads, fails \in Fails :
            /\ Apply(path, draft_complete(d.team_id[1], game_id, draft, fails))
            /\ UNCHANGED <<accepted, activated, started, finished>>

GameStart ==
    \E header \in Headers :
      LET path == "/events/game_start"
          d    == dispatch(path, header)
      IN  IF ~d.pass THEN Rejected(path, d)
          ELSE \E game_id \in GameIds, positions \in PositionPayloads, fails \in Fails :
            LET team_id == d.team_id[1]
                o       == game_start(team_id, game_id, positions, fails)
                key     == _dedupe_key(<<team_id, "game_start", game_id>>)
            IN  /\ Apply(path, o)
                /\ accepted' = IF o.resp.status = 200 THEN Bump(accepted, key)
                               ELSE accepted
                /\ UNCHANGED <<activated, started, finished>>

GameFinished ==
    \E header \in Headers :
      LET path == "/events/game_finished"
          d    == dispatch(path, header)
      IN  IF ~d.pass THEN Rejected(path, d)
          ELSE \E game_id \in GameIds, win \in Wins, fails \in Fails :
            LET team_id == d.team_id[1]
                o       == game_finished(team_id, game_id, win, fails)
                key     == _dedupe_key(<<team_id, "game_finished", game_id>>)
            IN  /\ Apply(path, o)
                /\ accepted' = IF o.resp.status = 200 THEN Bump(accepted, key)
                               ELSE accepted
                /\ finished' = IF o.resp.status = 200 THEN finished \cup {team_id}
                               ELSE finished
                /\ UNCHANGED <<activated, started>>

StreamReady ==
    \E header \in Headers :
      LET path == "/events/stream_ready"
          d    == dispatch(path, header)
      IN  IF ~d.pass THEN Rejected(path, d)
          ELSE \E game_id \in StreamGameIds, role \in RequestRoles, fails \in Fails :
            LET team_id == d.team_id[1]
                o       == stream_ready(team_id, game_id, role, fails)
                key     == _dedupe_key(<<team_id, "stream_ready", game_id, role>>)
            IN  /\ Apply(path, o)
                /\ accepted' = IF o.resp.status = 200 THEN Bump(accepted, key)
                               ELSE accepted
                /\ UNCHANGED <<activated, started, finished>>

\* main.py registers no route under /admin/: a request the gate passes is
\* answered 404 by the router
AdminRequest ==
    \E header \in Headers :
      LET path == "/admin/teams"
          d    == dispatch(path, header)
      IN  IF ~d.pass THEN Rejected(path, d)
          ELSE /\ Apply(path, Return(_error(404, "Not Found")))
               /\ UNCHANGED <<accepted, activated, started, finished>>

Next ==
    \/ Activate
    \/ ClientHeartbeat
    \/ ChampSelectStart
    \/ DraftComplete
    \/ GameStart
    \/ GameFinished
    \/ StreamReady
    \/ AdminRequest

Spec == Init /\ [][Next]_vars

(***************************************************************************)
(* Properties.  A property of a handler is stated over its outcome in the  *)
(* current state for every request it may be given; a property of a run is *)
(* stated over the history variables.                                      *)
(***************************************************************************)
\* the outcomes of the three dedupe-guarded handlers for team t and game g
\* when the store fails f attempts of a write call
GuardedOutcomes(t, g, f) ==
    {game_start(t, g, positions, f) : positions \in PositionPayloads}
    \cup {game_finished(t, g, win, f) : win \in Wins}
    \cup {stream_ready(t, g, role, f) : role \in RequestRoles}

\* the outcomes of the handlers that take no dedupe key
UnguardedOutcomes(t, g, f) ==
    {client_heartbeat(t)}
    \cup {champ_select_start(t, date, g, f) : date \in Dates}
    \cup {draft_complete(t, g, draft, f) : draft \in DraftPayloads}

\* the outcomes of the three handlers that need the team's session
SessionOutcomes(t, g) ==
    {draft_complete(t, g, draft, f) : draft \in DraftPayloads, f \in Fails}
    \cup {game_start(t, g, positions, f) : positions \in PositionPayloads, f \in Fails}
    \cup {game_finished(t, g, win, f) : win \in Wins, f \in Fails}

Duplicate409(o) == o.resp = _error(409, "duplicate event") /\ o.writes = <<>>

\* C1: for each dedupe key exactly one submission succeeds, and every later
\* submission with that key is answered 409 "duplicate event" and issues no
\* store write.
C1_LaterSubmissionIs409 ==
    \A t \in Teams, g \in GameIds :
      LET ks == _dedupe_key(<<t, "game_start", g>>)
          kf == _dedupe_key(<<t, "game_finished", g>>)
      IN  /\ Count(accepted, ks) <= 1
          /\ Count(accepted, kf) <= 1
          /\ Count(accepted, ks) = 1 =>
               \A positions \in PositionPayloads, f \in Fails :
                  Duplicate409(game_start(t, g, positions, f))
          /\ Count(accepted, kf) = 1 =>
               \A win \in Wins, f \in Fails :
                  Duplicate409(game_finished(t, g, win, f))
          /\ \A role \in RequestRoles :
               LET kr == _dedupe_key(<<t, "stream_ready", g, role>>)
               IN  /\ Count(accepted, kr) <= 1
                   /\ Count(accepted, kr) = 1 =>
                        \A f \in Fails : Duplicate409(stream_ready(t, g, role, f))

\* C2: at most one /activate call presenting a validation key k succeeds;
\* after the success k is in the used set and not in the active mapping, and
\* every later call presenting k is answered 400 "validation key already
\* used".
C2_ValidationKeySingleUse ==
    \A k \in RequestKeys :
      /\ Count(activated, k) <= 1
      /\ Count(activated, k) = 1 =>
           /\ k \in used_keys
           /\ k \notin DOMAIN validation_keys
           /\ \A hex \in Uuids, t \in now..MaxNow, f \in Fails :
                LET o == activate(k, hex, t, f)
                IN  /\ o.resp = _error(400, "validation key already used")
                    /\ o.used_keys = used_keys
                    /\ o.validation_keys = validation_keys
                    /\ o.api_keys = api_keys

C2_Witness ==
    \E k \in RequestKeys :
      /\ Count(activated, k) = 1
      /\ \E k2 \in DOMAIN validation_keys : k2 \notin used_keys \cup revoked_keys

\* C3: champ_select_start for a team with a live session returns the
\* session's game id and game number with "game already active", whatever
\* date and fresh id the call carries, and leaves the session table, the
\* sequence counters, the dedupe set and the store as they are.
C3_RepeatedStartChangesNothing ==
    \A t \in DOMAIN draft_cache, date \in Dates, new_id \in GameIds, f \in Fails :
      LET o == champ_select_start(t, date, new_id, f)
      IN  /\ o.resp.status = 200
          /\ o.resp.message = Some("game already active")
          /\ o.resp.game_id = Some(draft_cache[t].game_id)
          /\ o.resp.game_number = Some(draft_cache[t].game_number)
          /\ o.draft_cache = draft_cache
          /\ o.game_counters = game_counters
          /\ o.event_dedupe = event_dedupe
          /\ o.games_rows = games_rows
          /\ o.writes = <<>>

C3_Witness ==
    \E t \in DOMAIN draft_cache, date \in Dates, new_id \in GameIds :
      /\ date # draft_cache[t].date
      /\ new_id # draft_cache[t].game_id
      /\ Count(started, <<t, draft_cache[t].date>>) >= 1
      /\ champ_select_start(t, date, new_id, 0).resp.message
            = Some("game already active")

\* C4: the games started for a team and a date are numbered 1, 2, 3, ... in
\* the order they are started, with no gap and no repeat: the live session
\* of a team carries the count of the sessions started for its team and date.
C4_NumbersAreConsecutive ==
    \A t \in DOMAIN draft_cache :
      draft_cache[t].game_number = Count(started, <<t, draft_cache[t].date>>)

\* draft payloads a client may send, one of them with an empty value
DraftProbes == DraftPayloads \cup {("BP1" :> "Maokai" @@ "BP2" :> "")}

NonEmptyValues(draft) == Cardinality({k \in DOMAIN draft : draft[k] # ""})

\* C5: a draft_complete for the live session whose payload has no more
\* non-empty values than the session's draft counter returns 200 with the
\* game id, leaves the session record unchanged and issues no store write; a
\* payload with strictly more non-empty values issues exactly one store
\* write.
C5_DraftRichnessGate ==
    \A t \in DOMAIN draft_cache, draft \in DraftProbes, f \in Fails :
      LET cache == draft_cache[t]
          o     == draft_complete(t, cache.game_id, draft, f)
      IN  IF NonEmptyValues(draft) <= cache.draft_count
          THEN /\ o.resp = GameIdResponse(cache.game_id)
               /\ o.draft_cache = draft_cache
               /\ o.games_rows = games_rows
               /\ o.writes = <<>>
          ELSE Len(o.writes) = 1

C5_Witness ==
    \E t \in DOMAIN draft_cache :
      /\ draft_cache[t].draft_count = 1
      /\ \E draft \in DraftProbes :
           /\ NonEmptyValues(draft) = 1
           /\ Cardinality(DOMAIN draft) = 2
           /\ draft_complete(t, draft_cache[t].game_id, draft, 0).writes = <<>>
      /\ \E draft \in DraftProbes :
           Len(draft_complete(t, draft_cache[t].game_id, draft, 0).writes) = 1

\* C6: when draft_complete, game_start or game_finished returns 502 because
\* the store write failed, the session table and the dedupe set are exactly
\* what they were before the request.
C6_FailedWriteCommitsNothing ==
    \A t \in DOMAIN draft_cache, g \in GameIds :
      \A o \in SessionOutcomes(t, g) :
        o.resp.status = 502 =>
          /\ o.draft_cache = draft_cache
          /\ o.event_dedupe = event_dedupe

\* C7: from a successful game_finished of a team until the next
\* champ_select_start that creates a session for it, the team has no session
\* and a heartbeat of the team returns "no ongoing game" with no game id.
C7_FinishedTeamHasNoGame ==
    \A t \in finished :
      /\ t \notin DOMAIN draft_cache
      /\ client_heartbeat(t).resp.status = 200
      /\ client_heartbeat(t).resp.message = Some("no ongoing game")
      /\ client_heartbeat(t).resp.game_id = None
      /\ client_heartbeat(t).resp.game_number = None

C7_Witness ==
    \E t \in finished :
      /\ t \in DOMAIN game_counters
      /\ client_heartbeat(t).resp.message = Some("no ongoing game")

TeamPaths ==
    {"/client/heartbeat", "/events/champ_select_start", "/events/draft_complete",
     "/events/game_start", "/events/game_finished", "/events/stream_ready"}

BearerPrefix == "Bearer "

\* what follows the prefix of an Authorization header, without the
\* surrounding blanks
TokenOf(header) == Strip(SubSeq(header[1], Len(BearerPrefix) + 1, Len(header[1])))

MissingBearer(header) ==
    \/ header = None
    \/ ~StartsWith(header[1], BearerPrefix)
    \/ TokenOf(header) = ""

TokenTable == {api_keys[i][1] : i \in 1..Len(api_keys)}

NothingHappened(o) ==
    /\ o.writes = <<>>
    /\ o.draft_cache = draft_cache
    /\ o.game_counters = game_counters
    /\ o.event_dedupe = event_dedupe
    /\ o.games_rows = games_rows

\* C8: a request to a team endpoint is answered 401 "missing bearer token"
\* when the Authorization header is absent, does not start with "Bearer " or
\* carries an empty token, and 401 "invalid bearer token" when the token is
\* not in the token table; the gate does not pass the request on, the tables
\* stay as they are and no store write is issued.
C8_UnauthenticatedIsRejected ==
    \A path \in TeamPaths, header \in Headers :
      LET d == dispatch(path, header)
      IN  /\ MissingBearer(header) =>
               /\ ~d.pass
               /\ Reject(d).resp = _error(401, "missing bearer token")
               /\ NothingHappened(Reject(d))
          /\ (~MissingBearer(header) /\ TokenOf(header) \notin TokenTable) =>
               /\ ~d.pass
               /\ Reject(d).resp = _error(401, "invalid bearer token")
               /\ NothingHappened(Reject(d))

C8_Witness ==
    /\ draft_cache # EmptyDict
    /\ TokenTable # {}
    /\ \E header \in Headers :
         /\ MissingBearer(header)
         /\ header # None
         /\ StartsWith(header[1], BearerPrefix)
         /\ ~dispatch("/events/game_finished", header).pass
    /\ \E header \in Headers :
         /\ ~MissingBearer(header)
         /\ TokenOf(header) \notin TokenTable
         /\ ~dispatch("/events/game_finished", header).pass

\* C9: a key enters the dedupe set only by a game_start, game_finished or
\* stream_ready whose store write succeeded and which answers 200 (an
\* answer of 400, 409 or 502 adds none), and no handler removes a key.
C9_DedupeGrowsOnlyOnSuccess ==
    /\ event_dedupe = {k \in DOMAIN accepted : accepted[k] >= 1}
    /\ \A t \in Teams, g \in GameIds, f \in Fails :
         /\ \A o \in GuardedOutcomes(t, g, f) :
              /\ event_dedupe \subseteq o.event_dedupe
              /\ Cardinality(o.event_dedupe \ event_dedupe) <= 1
              /\ o.event_dedupe # event_dedupe =>
                   /\ o.resp.status = 200
                   /\ enabled => f < MaxAttempts
              /\ o.resp.status \in {400, 409, 502} => o.event_dedupe = event_dedupe
         /\ \A o \in UnguardedOutcomes(t, g, f) : o.event_dedupe = event_dedupe
    /\ \A path \in TeamPaths, header \in Headers :
         ~dispatch(path, header).pass =>
            Reject(dispatch(path, header)).event_dedupe = event_dedupe

C9_Witness ==
    /\ event_dedupe # {}
    /\ faults >= 1
    /\ \E t \in Teams, g \in GameIds, f \in Fails :
         \E o \in GuardedOutcomes(t, g, f) : o.resp.status = 502

\* C10: draft_complete, game_start and game_finished for a team with no
\* session, or with a game id that is not the session's, return 400 "no
\* active game for team", leave the session table, the dedupe set and the
\* store as they are and issue no store write.
C10_NoActiveGameIsRejected ==
    \A t \in Teams, g \in GameIds :
      (t \notin DOMAIN draft_cache \/ draft_cache[t].game_id # g) =>
         \A o \in SessionOutcomes(t, g) :
           /\ o.resp = _error(400, "no active game for team")
           /\ NothingHappened(o)

C10_Witness ==
    /\ \E t \in DOMAIN draft_cache, g \in GameIds :
         /\ draft_cache[t].game_id # g
         /\ _dedupe_key(<<t, "game_start", g>>) \in event_dedupe
    /\ \E t \in Teams : t \notin DOMAIN draft_cache

(***************************************************************************)
(* Requests in flight.  A step of a worker runs its handler from one       *)
(* access of the shared tables to the next; the worker may be preempted    *)
(* between steps.  The remote store accepts every write.                   *)
(***************************************************************************)
\* uuid.uuid4(): the draws of two workers differ
uuid4(th) == IF th = 1 THEN "a1" ELSE "b2"

\* _generate_game_id as drawn by a worker
_generate_game_id(th) ==
    IF th = 1 THEN "g_20260107_1201_cd34" ELSE "g_20260107_1201_ef56"

SetupGameId == "g_20260107_1200_ab12"

RaceDate == "2026-01-07"

RaceHeaders == {Some("Bearer kc_a1"), Some("Bearer nope")}

RaceRequest(kind, key, game_id, role, date) ==
    [kind |-> kind, key |-> key, game_id |-> game_id, role |-> role, date |-> date]

RaceRequests ==
    {RaceRequest("activate", k, "", "", "") : k \in {"K1", "K2"}}
    \cup {RaceRequest("champ_select_start", "", "", "", RaceDate),
          RaceRequest("game_start", "", SetupGameId, "", ""),
          RaceRequest("game_finished", "", SetupGameId, "", ""),
          RaceRequest("stream_ready", "", SetupGameId, "TOP", "")}

RacePath(kind) ==
    IF kind = "activate" THEN "/activate" ELSE "/events/" \o kind

Frame(th) == threads[th]

Goto(th, frame) == threads' = [threads EXCEPT ![th] = frame]

Respond(th, resp) == Goto(th, [Frame(th) EXCEPT !.pc = "done", !.resp = Some(resp)])

\* the dedupe key of the request a worker runs
FrameKey(f) ==
    IF f.kind = "stream_ready"
    THEN _dedupe_key(<<f.team_id, f.kind, f.game_id, f.role>>)
    ELSE _dedupe_key(<<f.team_id, f.kind, f.game_id>>)

InitRace ==
    /\ \E dep \in {FreshInstall, RunningInstall} :
          /\ validation_keys = dep.validation_keys
          /\ validation_key_expires = dep.validation_key_expires
          /\ revoked_keys = dep.revoked_keys
          /\ used_keys = dep.used_keys
          /\ api_keys = dep.api_keys
          /\ admin_bearer = dep.admin_bearer
    /\ enabled \in BOOLEAN
    /\ games_rows = 0
    /\ draft_cache = EmptyDict
    /\ game_counters = EmptyDict
    /\ event_dedupe = {}
    /\ now = 0
    /\ accepted = EmptyDict
    /\ activated = EmptyDict
    /\ started = EmptyDict
    /\ finished = {}
    /\ faults = 0
    /\ threads = [th \in Threads |-> IdleThread]

\* a champ_select_start of team KC served before the two workers start
SetupSession ==
    /\ \A th \in Threads : Frame(th).pc = "idle"
    /\ draft_cache = EmptyDict
    /\ resolve_team_id("kc_a1") # None
    /\ LET o == champ_select_start(resolve_team_id("kc_a1")[1], RaceDate, SetupGameId, 0)
       IN  /\ draft_cache' = o.draft_cache
           /\ game_counters' = o.game_counters
           /\ games_rows' = o.games_rows
    /\ UNCHANGED <<cfg, event_dedupe, enabled, now, hist, threads>>

\* the gate (auth.py 148-182), then the handler's first statement
Begin(th) ==
    /\ Frame(th).pc = "idle"
    /\ \E r \in RaceRequests :
       \E header \in (IF r.kind = "activate" THEN {None} ELSE RaceHeaders) :
         LET d == dispatch(RacePath(r.kind), header)
             f == [Frame(th) EXCEPT !.kind = r.kind, !.key = r.key,
                                    !.game_id = r.game_id, !.role = r.role,
                                    !.date = r.date]
         IN  IF ~d.pass
             THEN Goto(th, [f EXCEPT !.pc = "done",
                                     !.resp = Some(_error(d.status, d.error))])
             ELSE Goto(th, [f EXCEPT
                     !.pc = IF r.kind = "activate" THEN "validate_check"
                            ELSE IF r.kind = "champ_select_start" THEN "css_check"
                            ELSE "event_check",
                     !.team_id = IF d.team_id = None THEN "" ELSE d.team_id[1]])
    /\ UNCHANGED <<cfg, core, store, now, hist>>

\* validate_activation_key, lines 99-110: the tests
ValidateCheck(th) ==
    /\ Frame(th).pc = "validate_check"
    /\ LET v == validate_activation_key(Frame(th).key, now)
       IN  IF ~Truthy(v.team_id)
           THEN Respond(th, _error(400, IF Truthy(v.error) THEN v.error[1]
                                        ELSE "invalid or expired validation key"))
           ELSE Goto(th, [Frame(th) EXCEPT !.pc = "validate_mark",
                                           !.team_id = v.team_id[1]])
    /\ UNCHANGED <<cfg, core, store, now, hist>>

\* validate_activation_key, lines 111-113: the key is marked used
ValidateMark(th) ==
    /\ Frame(th).pc = "validate_mark"
    /\ used_keys' = used_keys \cup {Frame(th).key}
    /\ validation_keys' = DictPop(validation_keys, Frame(th).key)
    /\ Goto(th, [Frame(th) EXCEPT !.pc = "issue_find"])
    /\ UNCHANGED <<api_keys, validation_key_expires, revoked_keys, admin_bearer,
                   core, store, now, hist>>

\* issue_bearer_for_team, lines 124-126: the scan of the token table
IssueFind(th) ==
    /\ Frame(th).pc = "issue_find"
    /\ LET existing == _find_existing_bearer(api_keys, Frame(th).team_id)
       IN  IF Truthy(existing)
           THEN Goto(th, [Frame(th) EXCEPT !.pc = "activate_write",
                                           !.bearer = existing[1]])
           ELSE Goto(th, [Frame(th) EXCEPT !.pc = "issue_mint"])
    /\ UNCHANGED <<cfg, core, store, now, hist>>

\* issue_bearer_for_team, lines 127-129: a token is minted and stored
IssueMint(th) ==
    /\ Frame(th).pc = "issue_mint"
    /\ LET bearer == Lower(Frame(th).team_id) \o "_" \o uuid4(th)
       IN  /\ api_keys' = ApiKeysSet(api_keys, bearer, Frame(th).team_id)
           /\ Goto(th, [Frame(th) EXCEPT !.pc = "activate_write", !.bearer = bearer])
    /\ UNCHANGED <<validation_keys, validation_key_expires, revoked_keys, used_keys,
                   admin_bearer, core, store, now, hist>>

\* activate, main.py 171-182: the activation row and the answer
ActivateWrite(th) ==
    /\ Frame(th).pc = "activate_write"
    /\ Goto(th, [Frame(th) EXCEPT !.pc = "done", !.wrote = @ + 1,
                                  !.resp = Some(ActivationResponse(Frame(th).bearer))])
    /\ UNCHANGED <<cfg, core, store, now, hist>>

\* champ_select_start, main.py 200-206: the test for a live session
CssCheck(th) ==
    /\ Frame(th).pc = "css_check"
    /\ LET cache == DictGet(draft_cache, Frame(th).team_id)
       IN  IF cache # None
           THEN Respond(th, GameSessionResponse(Some("game already active"),
                                                Some(cache[1].game_id),
                                                Some(cache[1].game_number)))
           ELSE Goto(th, [Frame(th) EXCEPT !.pc = "css_count"])
    /\ UNCHANGED <<cfg, core, store, now, hist>>

\* champ_select_start, main.py 208-209: the game id and the sequence number
CssCount(th) ==
    /\ Frame(th).pc = "css_count"
    /\ game_counters' = _get_game_counter(Frame(th).team_id, Frame(th).date)
    /\ Goto(th, [Frame(th) EXCEPT
                   !.pc = "css_append",
                   !.game_id = _generate_game_id(th),
                   !.game_number = game_counters'[Frame(th).team_id][Frame(th).date]])
    /\ UNCHANGED <<cfg, draft_cache, event_dedupe, store, now, hist>>

\* champ_select_start, main.py 210-221: the game row is appended
CssAppend(th) ==
    /\ Frame(th).pc = "css_append"
    /\ games_rows' = IF enabled THEN games_rows + 1 ELSE games_rows
    /\ Goto(th, [Frame(th) EXCEPT !.pc = "css_store", !.wrote = @ + 1,
                                  !.row_index = _append_row(games_rows, 0)])
    /\ UNCHANGED <<cfg, core, enabled, now, hist>>

\* champ_select_start, main.py 222-231: the session is stored
CssStore(th) ==
    /\ Frame(th).pc = "css_store"
    /\ LET f == Frame(th)
           row_data == ("game_id" :> f.game_id @@ "date" :> f.date
                        @@ "opposite_team" :> "T1"
                        @@ "game_number" :> ToString(f.game_number)
                        @@ "patch" :> "14.1" @@ "tr" :> "TR1"
                        @@ "side" :> "BLUE")
       IN  /\ draft_cache' =
                DictSet(draft_cache, f.team_id,
                        [game_id |-> f.game_id, draft_count |-> 0,
                         row_index |-> f.row_index,
                         row_data |-> row_data,
                         game_number |-> f.game_number, date |-> f.date])
           /\ Respond(th, GameSessionResponse(None, Some(f.game_id),
                                              Some(f.game_number)))
    /\ UNCHANGED <<cfg, game_counters, event_dedupe, store, now, hist>>

\* game_start 267-272, game_finished 292-297, stream_ready 317-319: the
\* session test and the membership test of the dedupe key
EventCheck(th) ==
    /\ Frame(th).pc = "event_check"
    /\ LET f == Frame(th)
       IN  IF /\ f.kind # "stream_ready"
              /\ NoActiveGame(DictGet(draft_cache, f.team_id), f.game_id)
           THEN Respond(th, _error(400, "no active game for team"))
           ELSE IF FrameKey(f) \in event_dedupe
           THEN Respond(th, _error(409, "duplicate event"))
           ELSE Goto(th, [f EXCEPT !.pc = "event_write"])
    /\ UNCHANGED <<cfg, core, store, now, hist>>

\* game_start 274-283, game_finished 299-307, stream_ready 323-335: the row
\* is merged into the session the handler holds and written to the store
EventWrite(th) ==
    /\ Frame(th).pc = "event_write"
    /\ LET f       == Frame(th)
           held    == /\ f.kind # "stream_ready"
                      /\ ~NoActiveGame(DictGet(draft_cache, f.team_id), f.game_id)
           updates == IF f.kind = "game_start" THEN ("BM" :> "Azir")
                      ELSE ("win" :> "W")
           appends == held /\ draft_cache[f.team_id].row_index = None /\ enabled
       IN  /\ draft_cache' =
                IF held
                THEN [draft_cache EXCEPT
                        ![f.team_id].row_data = _update_row_data(@, updates),
                        ![f.team_id].row_index =
                            IF appends /\ f.kind = "game_start"
                            THEN Some(games_rows + 1) ELSE @]
                ELSE draft_cache
           /\ games_rows' = IF appends THEN games_rows + 1 ELSE games_rows
           /\ Goto(th, [f EXCEPT !.pc = "event_add", !.wrote = @ + 1])
    /\ UNCHANGED <<cfg, game_counters, event_dedupe, enabled, now, hist>>

\* game_start 284-287, game_finished 308-312, stream_ready 336-339: the key
\* is recorded (and the session of a finished game removed)
EventAdd(th) ==
    /\ Frame(th).pc = "event_add"
    /\ LET f == Frame(th)
       IN  /\ event_dedupe' = event_dedupe \cup {FrameKey(f)}
           /\ draft_cache' = IF f.kind = "game_finished"
                             THEN DictPop(draft_cache, f.team_id)
                             ELSE draft_cache
           /\ Respond(th, Ack)
    /\ UNCHANGED <<cfg, game_counters, store, now, hist>>

NextRace ==
    \/ SetupSession
    \/ \E th \in Threads : Begin(th)
    \/ \E th \in Threads : ValidateCheck(th)
    \/ \E th \in Threads : ValidateMark(th)
    \/ \E th \in Threads : IssueFind(th)
    \/ \E th \in Threads : IssueMint(th)
    \/ \E th \in Threads : ActivateWrite(th)
    \/ \E th \in Threads : CssCheck(th)
    \/ \E th \in Threads : CssCount(th)
    \/ \E th \in Threads : CssAppend(th)
    \/ \E th \in Threads : CssStore(th)
    \/ \E th \in Threads : EventCheck(th)
    \/ \E th \in Threads : EventWrite(th)
    \/ \E th \in Threads : EventAdd(th)

SpecRace == InitRace /\ [][NextRace]_vars

\* the start-up tables of InitAuth, and /activate requests from then on
SpecAuth == InitAuth /\ [][Activate]_vars

\* the teams for which a session was created and not finished since
HasStarted(t) == \E date \in Dates : Count(started, <<t, date>>) >= 1

\* C11: a team has a session exactly when a champ_select_start created one
\* for it and no game_finished has succeeded for it since; only a
\* champ_select_start answering 200 adds a session, only a game_finished
\* answering 200 removes one, and every other handler leaves the set of
\* teams in session as it is.
C11_SessionIffUnfinishedGame ==
    /\ \A t \in Teams : t \in DOMAIN draft_cache <=> (HasStarted(t) /\ t \notin finished)
    /\ \A t \in Teams, g \in GameIds, f \in Fails :
         /\ \A date \in Dates :
              LET o == champ_select_start(t, date, g, f)
              IN  /\ DOMAIN draft_cache \subseteq DOMAIN o.draft_cache
                  /\ DOMAIN o.draft_cache \subseteq DOMAIN draft_cache \cup {t}
                  /\ DOMAIN o.draft_cache # DOMAIN draft_cache =>
                       /\ o.resp.status = 200
                       /\ o.resp.game_id = Some(o.draft_cache[t].game_id)
         /\ \A win \in Wins :
              LET o == game_finished(t, g, win, f)
              IN  IF o.resp.status = 200 /\ o.resp.error = None
                  THEN /\ t \in DOMAIN draft_cache
                       /\ draft_cache[t].game_id = g
                       /\ DOMAIN o.draft_cache = DOMAIN draft_cache \ {t}
                  ELSE DOMAIN o.draft_cache = DOMAIN draft_cache
         /\ DOMAIN client_heartbeat(t).draft_cache = DOMAIN draft_cache
         /\ \A draft \in DraftPayloads :
              DOMAIN draft_complete(t, g, draft, f).draft_cache = DOMAIN draft_cache
         /\ \A positions \in PositionPayloads :
              DOMAIN game_start(t, g, positions, f).draft_cache = DOMAIN draft_cache
         /\ \A role \in RequestRoles :
              DOMAIN stream_ready(t, g, role, f).draft_cache = DOMAIN draft_cache

C11_Witness ==
    /\ \E t \in finished : HasStarted(t)
    /\ \E t \in DOMAIN draft_cache :
         /\ t \notin finished
         /\ _dedupe_key(<<t, "game_start", draft_cache[t].game_id>>) \in event_dedupe

\* C12: a heartbeat changes no table and issues no store write; it answers
\* 200 with the live session's game id and game number when the team has a
\* session, and 200 "no ongoing game" without an error when it has none.
C12_HeartbeatIsReadOnly ==
    \A t \in Teams :
      LET o == client_heartbeat(t)
      IN  /\ NothingHappened(o)
          /\ o.resp.status = 200
          /\ o.resp.error = None
          /\ IF t \in DOMAIN draft_cache
             THEN /\ o.resp.game_id = Some(draft_cache[t].game_id)
                  /\ o.resp.game_number = Some(draft_cache[t].game_number)
                  /\ o.resp.message = None
             ELSE /\ o.resp.game_id = None
                  /\ o.resp.game_number = None
                  /\ o.resp.message = Some("no ongoing game")

C12_Witness ==
    /\ \E t \in Teams : t \in DOMAIN draft_cache /\ draft_cache[t].game_number = 2
    /\ \E t \in Teams : t \notin DOMAIN draft_cache /\ ~HasStarted(t)

Rejection(v, reason) ==
    /\ v.team_id = None
    /\ v.error = Some(reason)
    /\ v.used = used_keys
    /\ v.active = validation_keys

\* C13: validate_activation_key picks the reason of a rejection in a fixed
\* order: a used key is "already used" whatever else holds of it; otherwise
\* a revoked key is "revoked"; otherwise a key absent from the active
\* mapping is "invalid or expired"; otherwise an expired key is "expired".
\* A rejected call leaves the used set and the active mapping as they are,
\* and /activate answers 400 with the same reason.
C13_RejectionPriority ==
    \A k \in RequestKeys, t \in now..MaxNow :
      LET v == validate_activation_key(k, t)
          reason ==
            IF k \in used_keys THEN "validation key already used"
            ELSE IF k \in revoked_keys THEN "validation key revoked"
            ELSE IF k \notin DOMAIN validation_keys
            THEN "invalid or expired validation key"
            ELSE IF k \in DOMAIN validation_key_expires
                    /\ validation_key_expires[k] <= t
            THEN "validation key expired"
            ELSE ""
      IN  /\ reason # "" =>
               /\ Rejection(v, reason)
               /\ \A hex \in Uuids, f \in Fails :
                    /\ activate(k, hex, t, f).resp = _error(400, reason)
                    /\ activate(k, hex, t, f).api_keys = api_keys
          /\ reason = "" => v.team_id = Some(validation_keys[k])
          /\ v.team_id = None => (v.used = used_keys /\ v.active = validation_keys)

C13_Witness ==
    /\ activated # EmptyDict
    /\ \E k \in used_keys \cap revoked_keys :
         /\ Count(activated, k) = 0
         /\ k \notin DOMAIN validation_keys
         /\ k \in DOMAIN validation_key_expires
         /\ validation_key_expires[k] <= now
         /\ validate_activation_key(k, now).error = Some("validation key already used")

\* a key that passes the used, revoked and active-mapping tests
Eligible(k) ==
    k \notin used_keys /\ k \notin revoked_keys /\ k \in DOMAIN validation_keys

ExpiredAt(k, t) == validate_activation_key(k, t).error = Some("validation key expired")

\* C14 (as stated): an eligible key is rejected "expired" exactly when its
\* expiry timestamp is at or after the current time.
C14_ExpiredWhenExpiryAtOrAfterNow ==
    \A k \in RequestKeys, t \in now..MaxNow :
      Eligible(k) =>
        (ExpiredAt(k, t) <=>
           (k \in DOMAIN validation_key_expires /\ validation_key_expires[k] >= t))

\* C14 (amended): an eligible key is rejected "expired" exactly when the
\* current time is at or after its expiry timestamp; an eligible key with no
\* expiry timestamp is accepted at every time.
C14_ExpiredWhenNowAtOrAfterExpiry ==
    \A k \in RequestKeys, t \in now..MaxNow :
      Eligible(k) =>
        /\ ExpiredAt(k, t) <=>
             (k \in DOMAIN validation_key_expires /\ t >= validation_key_expires[k])
        /\ k \notin DOMAIN validation_key_expires =>
             validate_activation_key(k, t).team_id = Some(validation_keys[k])

C14_Witness ==
    /\ now = MaxNow
    /\ activated # EmptyDict
    /\ \E k \in RequestKeys :
         /\ Eligible(k)
         /\ k \in DOMAIN validation_key_expires
         /\ validation_key_expires[k] = now
         /\ ExpiredAt(k, now)

TokensOf(keys, team) == {i \in 1..Len(keys) : keys[i][2] = team}

\* C15: issue_bearer_for_team returns the token the team already has and
\* leaves the token table as it is, and otherwise appends exactly one entry,
\* the returned bearer mapped to the team; no team has two tokens, and a
\* successful /activate returns the one token of the key's team.
C15_OneTokenPerTeam ==
    /\ \A team \in Teams : Cardinality(TokensOf(api_keys, team)) <= 1
    /\ \A team \in Teams, hex \in Uuids :
         LET ib == issue_bearer_for_team(api_keys, team, hex)
         IN  IF TokensOf(api_keys, team) # {}
             THEN /\ ib.api_keys = api_keys
                  /\ \E i \in TokensOf(api_keys, team) : ib.bearer = api_keys[i][1]
             ELSE /\ ib.api_keys = Append(api_keys, <<ib.bearer, team>>)
                  /\ Cardinality(TokensOf(ib.api_keys, team)) = 1
    /\ \A k \in RequestKeys, hex \in Uuids, t \in now..MaxNow, f \in Fails :
         LET o == activate(k, hex, t, f)
         IN  o.resp.status = 200 =>
               LET team == validation_keys[k]
               IN  /\ Cardinality(TokensOf(o.api_keys, team)) = 1
                   /\ \E i \in TokensOf(o.api_keys, team) :
                        o.resp.bearer = Some(o.api_keys[i][1])
                   /\ TokensOf(api_keys, team) # {} => o.api_keys = api_keys

C15_Witness ==
    /\ Cardinality({k \in AuthKeys : Count(activated, k) = 1}) = 2
    /\ Cardinality(TokensOf(api_keys, "KC")) = 1
    /\ Len(api_keys) = 2

\* C16: on a path under /admin/ a request with a non-empty bearer is
\* answered 503 when no admin token is configured and 401 when the bearer is
\* not the configured admin token; only the admin token passes, marked
\* admin-scoped, so a team's bearer does not; a request without a bearer is
\* answered 401 whether or not an admin token is configured.
C16_AdminGate ==
    \A header \in Headers :
      LET d == dispatch("/admin/teams", header)
      IN  IF MissingBearer(header)
          THEN d = Deny(401, "missing bearer token")
          ELSE IF admin_bearer = None
          THEN d = Deny(503, "admin bearer not configured")
          ELSE IF TokenOf(header) # admin_bearer[1]
          THEN d = Deny(401, "invalid admin bearer")
          ELSE d = Pass(None, TRUE)

C16_Witness ==
    /\ admin_bearer # None
    /\ \E header \in Headers :
         /\ ~MissingBearer(header)
         /\ TokenOf(header) \in TokenTable
         /\ dispatch("/events/game_start", header).pass
         /\ ~dispatch("/admin/teams", header).pass
    /\ \E header \in Headers : dispatch("/admin/teams", header).is_admin

\* two workers that have both answered
BothDone(a, b) == a # b /\ Frame(a).pc = "done" /\ Frame(b).pc = "done"

Succeeded(th) == Frame(th).resp # None /\ Frame(th).resp[1].status = 200

\* C17: of two /activate requests in flight with the same validation key, at
\* most one succeeds.
C17_OneActivationPerKeyInFlight ==
    \A a, b \in Threads :
      (/\ BothDone(a, b)
       /\ Frame(a).kind = "activate" /\ Frame(b).kind = "activate"
       /\ Frame(a).key = Frame(b).key)
      => ~(Succeeded(a) /\ Succeeded(b))

\* C18: of two champ_select_start requests in flight for the same team, at
\* most one creates a session, the sequence counter of the team is
\* incremented at most once, at most one game row is appended, and both
\* answers carry the same game id.
C18_OneSessionPerTeamInFlight ==
    \A a, b \in Threads :
      (/\ BothDone(a, b)
       /\ Frame(a).kind = "champ_select_start" /\ Frame(b).kind = "champ_select_start"
       /\ Frame(a).team_id = Frame(b).team_id
       /\ Succeeded(a) /\ Succeeded(b))
      => /\ Frame(a).resp[1].game_id = Frame(b).resp[1].game_id
         /\ Frame(a).wrote + Frame(b).wrote <= 1
         /\ Count(game_counters[Frame(a).team_id], RaceDate) <= 1

\* C19: of two requests in flight with the same dedupe key, at most one is
\* accepted and writes to the store; a second game_start or stream_ready is
\* answered 409.
C19_OneAcceptedPerKeyInFlight ==
    \A a, b \in Threads :
      (/\ BothDone(a, b)
       /\ Frame(a).kind \in {"game_start", "game_finished", "stream_ready"}
       /\ Frame(a).team_id # ""
       /\ Frame(a).kind = Frame(b).kind
       /\ FrameKey(Frame(a)) = FrameKey(Frame(b)))
      => /\ ~(Succeeded(a) /\ Succeeded(b))
         /\ ~(Frame(a).wrote > 0 /\ Frame(b).wrote > 0)
         /\ (Succeeded(a) /\ Frame(a).kind # "game_finished")
               => Frame(b).resp[1] = _error(409, "duplicate event")

\* C20: two /activate requests in flight for the same team with two valid
\* keys return the same bearer, and the token table ends with exactly one
\* token of the team.
C20_OneTokenPerTeamInFlight ==
    \A a, b \in Threads :
      (/\ BothDone(a, b)
       /\ Frame(a).kind = "activate" /\ Frame(b).kind = "activate"
       /\ Frame(a).key # Frame(b).key
       /\ Frame(a).team_id = Frame(b).team_id
       /\ Succeeded(a) /\ Succeeded(b))
      => /\ Frame(a).resp[1].bearer = Frame(b).resp[1].bearer
         /\ Cardinality(TokensOf(api_keys, Frame(a).team_id)) = 1

\* the outcomes of every handler of team t for game g when the store fails
\* f attempts of each call
AllOutcomes(t, g, f) == GuardedOutcomes(t, g, f) \cup UnguardedOutcomes(t, g, f)

\* the remote API may fail any number of leading attempts of a call
AttemptFaults == 0..(MaxAttempts + 1)

WithoutLocators(dc) == [t \in DOMAIN dc |-> [dc[t] EXCEPT !.row_index = None]]

Tables(resp, dc, gc, ed) ==
    [resp |-> resp, draft_cache |-> dc, game_counters |-> gc, event_dedupe |-> ed]

\* the tables and the response of an outcome, the row locators left out
TablesOf(o) ==
    Tables(o.resp, WithoutLocators(o.draft_cache), o.game_counters, o.event_dedupe)

CurrentTables == Tables(None, WithoutLocators(draft_cache), game_counters, event_dedupe)

InMemory_client_heartbeat(s, t) ==
    IF t \in DOMAIN s.draft_cache
    THEN [s EXCEPT !.resp = GameSessionResponse(None, Some(s.draft_cache[t].game_id),
                                                Some(s.draft_cache[t].game_number))]
    ELSE [s EXCEPT !.resp = GameSessionResponse(Some("no ongoing game"), None, None)]

InMemory_champ_select_start(s, t, date, id) ==
    IF t \in DOMAIN s.draft_cache
    THEN [s EXCEPT !.resp = GameSessionResponse(Some("game already active"),
                                                Some(s.draft_cache[t].game_id),
                                                Some(s.draft_cache[t].game_number))]
    ELSE LET perDate == IF t \in DOMAIN s.game_counters THEN s.game_counters[t]
                        ELSE EmptyDict
             n       == Count(perDate, date) + 1
         IN  Tables(GameSessionResponse(None, Some(id), Some(n)),
                    DictSet(s.draft_cache, t,
                            [game_id |-> id, draft_count |-> 0, row_index |-> None,
                             row_data |-> ("game_id" :> id @@ "date" :> date
                                           @@ "opposite_team" :> "T1"
                                           @@ "game_number" :> ToString(n)
                                           @@ "patch" :> "14.1" @@ "tr" :> "TR1"
                                           @@ "side" :> "BLUE"),
                             game_number |-> n, date |-> date]),
                    DictSet(s.game_counters, t, DictSet(perDate, date, n)),
                    s.event_dedupe)

Live(s, t, g) == t \in DOMAIN s.draft_cache /\ s.draft_cache[t].game_id = g

Merge(row_data, updates, columns) ==
    [k \in DOMAIN row_data \cup (DOMAIN updates \cap columns) |->
        IF k \in DOMAIN updates \cap columns THEN updates[k] ELSE row_data[k]]

InMemory_draft_complete(s, t, g, draft) ==
    IF ~Live(s, t, g) THEN [s EXCEPT !.resp = _error(400, "no active game for team")]
    ELSE IF NonEmptyValues(draft) <= s.draft_cache[t].draft_count
    THEN [s EXCEPT !.resp = GameIdResponse(g)]
    ELSE [s EXCEPT !.resp = GameIdResponse(g),
                   !.draft_cache[t].draft_count = NonEmptyValues(draft),
                   !.draft_cache[t].row_data = Merge(@, draft, GAME_COLUMNS_SET)]

InMemory_game_start(s, t, g, positions) ==
    IF ~Live(s, t, g) THEN [s EXCEPT !.resp = _error(400, "no active game for team")]
    ELSE IF Join("|", <<t, "game_start", g>>) \in s.event_dedupe
    THEN [s EXCEPT !.resp = _error(409, "duplicate event")]
    ELSE [s EXCEPT !.resp = Ack,
                   !.draft_cache[t].row_data = Merge(@, positions, POSITION_COLUMNS),
                   !.event_dedupe = @ \cup {Join("|", <<t, "game_start", g>>)}]

InMemory_game_finished(s, t, g, win) ==
    IF ~Live(s, t, g) THEN [s EXCEPT !.resp = _error(400, "no active game for team")]
    ELSE IF Join("|", <<t, "game_finished", g>>) \in s.event_dedupe
    THEN [s EXCEPT !.resp = _error(409, "duplicate event")]
    ELSE [s EXCEPT !.resp = Ack,
                   !.draft_cache = DictPop(@, t),
                   !.event_dedupe = @ \cup {Join("|", <<t, "game_finished", g>>)}]

InMemory_stream_ready(s, t, g, role) ==
    IF Join("|", <<t, "stream_ready", g, role>>) \in s.event_dedupe
    THEN [s EXCEPT !.resp = _error(409, "duplicate event")]
    ELSE [s EXCEPT !.resp = Ack,
                   !.event_dedupe = @ \cup {Join("|", <<t, "stream_ready", g, role>>)}]

\* C22: with the store adapter disabled no endpoint answers 502 and every
\* activation, session and dedupe transition is the one an enabled store
\* whose writes all succeed produces, except that row locators stay null:
\* in both modes a handler whose writes succeed changes the tables as the
\* store-free logic does, and without a store no session has a locator.
C22_DisabledStoreSameTransitions ==
    /\ ~enabled =>
         /\ \A t \in DOMAIN draft_cache : draft_cache[t].row_index = None
         /\ games_rows = 0
         /\ \A t \in Teams, g \in GameIds, f \in StoreFails :
              \A o \in AllOutcomes(t, g, f) :
                 /\ o.resp.status # 502
                 /\ \A u \in DOMAIN o.draft_cache : o.draft_cache[u].row_index = None
         /\ \A k \in RequestKeys, hex \in Uuids, t \in now..MaxNow, f \in StoreFails :
              /\ activate(k, hex, t, f).resp.status # 502
              /\ activate(k, hex, t, f) = activate(k, hex, t, 0)
    /\ enabled =>
         \A t \in Teams, g \in GameIds :
            \A o \in AllOutcomes(t, g, 0) :
               /\ o.resp.status # 502
               /\ \A u \in DOMAIN o.draft_cache : o.draft_cache[u].row_index # None
    /\ \A t \in Teams, g \in GameIds :
         LET s == CurrentTables
         IN  /\ TablesOf(client_heartbeat(t)).draft_cache = s.draft_cache
             /\ TablesOf(client_heartbeat(t)) = InMemory_client_heartbeat(s, t)
             /\ \A date \in Dates :
                  TablesOf(champ_select_start(t, date, g, 0))
                     = InMemory_champ_select_start(s, t, date, g)
             /\ \A draft \in DraftPayloads :
                  TablesOf(draft_complete(t, g, draft, 0))
                     = InMemory_draft_complete(s, t, g, draft)
             /\ \A positions \in PositionPayloads :
                  TablesOf(game_start(t, g, positions, 0))
                     = InMemory_game_start(s, t, g, positions)
             /\ \A win \in Wins :
                  TablesOf(game_finished(t, g, win, 0))
                     = InMemory_game_finished(s, t, g, win)
             /\ \A role \in RequestRoles :
                  TablesOf(stream_ready(t, g, role, 0))
                     = InMemory_stream_ready(s, t, g, role)
    /\ \A k \in RequestKeys, hex \in Uuids, t \in now..MaxNow :
         LET a == activate(k, hex, t, 0)
             v == validate_activation_key(k, t)
         IN  /\ a.resp.status \in {200, 400}
             /\ a.resp.status = 200 <=> Truthy(v.team_id)
             /\ a.used_keys = v.used
             /\ a.validation_keys = v.active
             /\ a.resp.status = 200 =>
                  /\ a.api_keys = issue_bearer_for_team(api_keys, v.team_id[1], hex).api_keys
                  /\ a.resp.bearer
                       = Some(issue_bearer_for_team(api_keys, v.team_id[1], hex).bearer)
             /\ a.resp.status = 400 => a.api_keys = api_keys

C22_Witness ==
    /\ ~enabled
    /\ activated # EmptyDict
    /\ \E t \in Teams, g \in GameIds :
          _dedupe_key(<<t, "game_finished", g>>) \in event_dedupe
    /\ \E t \in DOMAIN draft_cache : draft_cache[t].draft_count > 0

\* the calls of an outcome that write the games table
GamesWrites(o) ==
    SelectSeq(o.writes, LAMBDA w : w.call \in {"update_game_row", "append_game_row"})

\* the one games-table write of an accepted request on the session `cache`
\* of team t: an update at the locator, or an append whose locator is stored
OneGamesWrite(o, t, cache, f) ==
    /\ Len(GamesWrites(o)) = 1
    /\ t \in DOMAIN o.draft_cache
    /\ IF cache.row_index # None
       THEN /\ GamesWrites(o)[1]
                 = UpdateWrite(cache.row_index[1], _build_row(o.draft_cache[t].row_data))
            /\ o.draft_cache[t].row_index = cache.row_index
            /\ o.games_rows = games_rows
       ELSE /\ GamesWrites(o)[1]
                 = Write("append_game_row", _build_row(o.draft_cache[t].row_data))
            /\ o.draft_cache[t].row_index = _append_row(games_rows, f)

\* C23: an accepted draft_complete with a richer payload and an accepted
\* game_start issue exactly one games-table write, an update at the
\* session's locator when it has one and otherwise an append whose returned
\* locator is stored; a locator that is set stays the same while the session
\* lives.
C23_OneWritePerAcceptedUpdate ==
    \A t \in DOMAIN draft_cache, f \in Fails :
      LET cache == draft_cache[t]
      IN  /\ \A draft \in DraftProbes :
               LET o == draft_complete(t, cache.game_id, draft, f)
               IN  (o.resp.status = 200 /\ NonEmptyValues(draft) > cache.draft_count)
                      => OneGamesWrite(o, t, cache, f)
          /\ \A positions \in PositionPayloads :
               LET o == game_start(t, cache.game_id, positions, f)
               IN  o.resp.status = 200 => OneGamesWrite(o, t, cache, f)
          /\ \A g \in GameIds :
               \A o \in AllOutcomes(t, g, f) :
                  (cache.row_index # None /\ t \in DOMAIN o.draft_cache)
                     => o.draft_cache[t].row_index = cache.row_index

C23_Witness ==
    \E t \in DOMAIN draft_cache :
       /\ draft_cache[t].row_index # None
       /\ draft_cache[t].draft_count > 0
       /\ _dedupe_key(<<t, "game_start", draft_cache[t].game_id>>) \in event_dedupe
       /\ "BM" \in DOMAIN draft_cache[t].row_data

\* C24: a session's draft counter starts at 0 and never decreases; it changes
\* only in a draft_complete answered 200 whose payload has strictly more
\* non-empty values than the counter, and then becomes that number;
\* game_start, game_finished, the heartbeat and champ_select_start leave it
\* as it is.
C24_DraftCounterMonotone ==
    /\ \A t \in DOMAIN draft_cache : draft_cache[t].draft_count >= 0
    /\ \A t \in Teams, g \in GameIds, f \in Fails :
         /\ \A date \in Dates :
              LET o == champ_select_start(t, date, g, f)
              IN  (t \notin DOMAIN draft_cache /\ t \in DOMAIN o.draft_cache)
                     => o.draft_cache[t].draft_count = 0
         /\ \A o \in GuardedOutcomes(t, g, f)
                     \cup {client_heartbeat(t)}
                     \cup {champ_select_start(t, date, g, f) : date \in Dates} :
              \A u \in DOMAIN draft_cache \cap DOMAIN o.draft_cache :
                 o.draft_cache[u].draft_count = draft_cache[u].draft_count
         /\ \A draft \in DraftProbes :
              LET o == draft_complete(t, g, draft, f)
              IN  /\ DOMAIN o.draft_cache = DOMAIN draft_cache
                  /\ \A u \in DOMAIN draft_cache \ {t} :
                        o.draft_cache[u].draft_count = draft_cache[u].draft_count
                  /\ t \in DOMAIN draft_cache =>
                       LET old    == draft_cache[t].draft_count
                           new    == o.draft_cache[t].draft_count
                           richer == /\ o.resp.status = 200
                                     /\ g = draft_cache[t].game_id
                                     /\ NonEmptyValues(draft) > old
                       IN  /\ new >= old
                           /\ richer => new = NonEmptyValues(draft)
                           /\ ~richer => new = old

C24_Witness ==
    \E t \in DOMAIN draft_cache :
       /\ draft_cache[t].draft_count = 2
       /\ faults >= 1
       /\ _dedupe_key(<<t, "game_start", draft_cache[t].game_id>>) \in event_dedupe

\* the teams that hold a bearer token
TeamsWithToken == {api_keys[i][2] : i \in DOMAIN api_keys}

\* C25: a champ_select_start answered 502 creates no session and leaves the
\* team's per-date sequence counter as it was, so the retry that succeeds
\* gets the number the failed call would have got.
C25_FailedStartKeepsCounter ==
    \A t \in TeamsWithToken, date \in Dates, g \in GameIds, f \in Fails :
       LET o == champ_select_start(t, date, g, f)
       IN  o.resp.status = 502 =>
              /\ o.draft_cache = draft_cache
              /\ o.game_counters = game_counters
              /\ \A f2 \in Fails :
                   LET retry == champ_select_start(t, date, g, f2)
                   IN  retry.resp.status = 200 =>
                          retry.resp.game_number
                             = Some(Count(IF t \in DOMAIN game_counters
                                          THEN game_counters[t] ELSE EmptyDict, date) + 1)

\* draft payloads with a non-empty value under a key that is no column
ForeignDrafts ==
    {("hack" :> "x"),
     ("BP1" :> "Maokai" @@ "BP2" :> "Azir" @@ "hack" :> "x")}

\* the row field map and the written row of outcome o hold nothing of the
\* payload's keys outside the whitelist
ForeignKeysDropped(o, t, payload) ==
    /\ o.resp.status \in {200, 502}
    /\ DOMAIN o.draft_cache[t].row_data \subseteq GAME_COLUMNS_SET
    /\ \A i \in 1..Len(GamesWrites(o)) :
         LET w == GamesWrites(o)[i]
         IN  /\ w.row = _build_row(o.draft_cache[t].row_data)
             /\ Len(w.row) = Len(GAMES_COLUMNS)
             /\ \A k \in DOMAIN payload \ GAME_COLUMNS_SET :
                  payload[k] # "" => \A j \in 1..Len(w.row) : w.row[j] # payload[k]

\* C26: the keys of every session's row field map are columns of the
\* whitelist; a draft_complete or game_start payload key outside the
\* whitelist is dropped without an error and reaches neither the stored map
\* nor the written row.
C26_RowKeysWithinWhitelist ==
    /\ \A t \in DOMAIN draft_cache :
          DOMAIN draft_cache[t].row_data \subseteq GAME_COLUMNS_SET
    /\ \A t \in DOMAIN draft_cache, f \in Fails :
         LET cache == draft_cache[t]
         IN  /\ \A draft \in DraftPayloads \cup ForeignDrafts :
                  LET o == draft_complete(t, cache.game_id, draft, f)
                  IN  /\ ForeignKeysDropped(o, t, draft)
                      /\ f = 0 => o.resp.status = 200
             /\ \A positions \in PositionPayloads :
                  LET o == game_start(t, cache.game_id, positions, f)
                  IN  _dedupe_key(<<t, "game_start", cache.game_id>>) \notin event_dedupe
                         => /\ ForeignKeysDropped(o, t, positions)
                            /\ f = 0 => o.resp.status = 200

C26_Witness ==
    \E t \in DOMAIN draft_cache :
       /\ draft_cache[t].draft_count = 2
       /\ {"BP2", "BM"} \subseteq DOMAIN draft_cache[t].row_data
       /\ "hack" \notin DOMAIN draft_cache[t].row_data

\* position payloads that also name columns game_start does not own
PositionProbes ==
    PositionPayloads
    \cup {("BT" :> "Gnar" @@ "RT" :> "" @@ "game_id" :> "g_other"
           @@ "date" :> "2026-02-02" @@ "game_number" :> "9"
           @@ "BP1" :> "Zed" @@ "win" :> "W")}

\* C27: an accepted game_start changes only the position-column entries of
\* the session's row field map; every other entry stays as it was, also when
\* the payload names it, and the draft counter stays as it was.
C27_GameStartChangesPositionsOnly ==
    \A t \in DOMAIN draft_cache, f \in Fails, positions \in PositionProbes :
      LET cache == draft_cache[t]
          o     == game_start(t, cache.game_id, positions, f)
      IN  o.resp.status = 200 =>
            /\ t \in DOMAIN o.draft_cache
            /\ LET old == cache.row_data
                   new == o.draft_cache[t].row_data
               IN  /\ DOMAIN new \ POSITION_COLUMNS = DOMAIN old \ POSITION_COLUMNS
                   /\ \A k \in DOMAIN old \ POSITION_COLUMNS : new[k] = old[k]
                   /\ DOMAIN new \cap POSITION_COLUMNS
                        = (DOMAIN old \cup DOMAIN positions) \cap POSITION_COLUMNS
                   /\ \A k \in DOMAIN new \cap POSITION_COLUMNS :
                        new[k] = IF k \in DOMAIN positions THEN positions[k] ELSE old[k]
            /\ o.draft_cache[t].draft_count = cache.draft_count
            /\ o.draft_cache[t].game_id = cache.game_id
            /\ o.draft_cache[t].game_number = cache.game_number
            /\ o.draft_cache[t].date = cache.date
            /\ \A u \in DOMAIN draft_cache \ {t} :
                 u \in DOMAIN o.draft_cache /\ o.draft_cache[u] = draft_cache[u]

C27_Witness ==
    \E t \in DOMAIN draft_cache :
       /\ _dedupe_key(<<t, "game_start", draft_cache[t].game_id>>) \in event_dedupe
       /\ draft_cache[t].draft_count = 1
       /\ "BM" \in DOMAIN draft_cache[t].row_data
       /\ draft_cache[t].row_data["BM"] = "Azir"
       /\ "win" \notin DOMAIN draft_cache[t].row_data

\* C28: while a team has a live session the dedupe set holds no
\* game_finished key for the team and the session's game id, so a
\* game_finished with that id is never answered 409 and, when its write
\* succeeds, ends the session; this however game ids are generated, also
\* after earlier games of the team finished.
C28_LiveSessionCanFinish ==
    \A t \in DOMAIN draft_cache :
      LET g == draft_cache[t].game_id
      IN  /\ _dedupe_key(<<t, "game_finished", g>>) \notin event_dedupe
          /\ \A win \in Wins, f \in Fails :
               LET o == game_finished(t, g, win, f)
               IN  /\ o.resp.status # 409
                   /\ o.resp.status = 200 => t \notin DOMAIN o.draft_cache
                   /\ f = 0 => o.resp.status = 200

\* a draft payload that names the columns of the session's identity
IdentityDrafts ==
    {("game_id" :> "g_other" @@ "date" :> "2026-02-02" @@ "game_number" :> "9")}

\* the identity columns of a session's row field map are the session's own
RowIdentityMatches(cache) ==
    /\ {"game_id", "date", "game_number"} \subseteq DOMAIN cache.row_data
    /\ cache.row_data["game_id"] = cache.game_id
    /\ cache.row_data["date"] = cache.date
    /\ cache.row_data["game_number"] = ToString(cache.game_number)

\* C29: the game_id, date and game_number entries of every live session's
\* row field map equal the session's own id, date and sequence number; no
\* draft_complete, game_start or game_finished payload changes them.
C29_RowIdentityMatchesSession ==
    /\ \A t \in DOMAIN draft_cache : RowIdentityMatches(draft_cache[t])
    /\ \A t \in DOMAIN draft_cache, f \in Fails :
         LET g == draft_cache[t].game_id
         IN  \A o \in {draft_complete(t, g, draft, f) :
                          draft \in DraftPayloads \cup IdentityDrafts}
                      \cup {game_start(t, g, positions, f) : positions \in PositionProbes}
                      \cup {game_finished(t, g, win, f) : win \in Wins} :
                t \in DOMAIN o.draft_cache => RowIdentityMatches(o.draft_cache[t])

\* the dedupe keys of team b in the set ed
KeysOf(ed, b) == {k \in ed : StartsWith(k, b \o "|")}

\* a request of team a with outcome o left the tables of team b alone
TablesUntouched(o, b) ==
    /\ DictGet(o.draft_cache, b) = DictGet(draft_cache, b)
    /\ DictGet(o.game_counters, b) = DictGet(game_counters, b)
    /\ KeysOf(o.event_dedupe, b) = KeysOf(event_dedupe, b)

\* C30: a request with team A's bearer leaves the session record, the
\* per-date counters and the dedupe keys of every other team B unchanged,
\* and its response never contains B's game id.
C30_TeamIsolation ==
    \A a \in TeamsWithToken, g \in GameIds, f \in Fails :
      \A b \in Teams \ {a}, o \in AllOutcomes(a, g, f) :
         /\ TablesUntouched(o, b)
         /\ b \in DOMAIN draft_cache =>
              o.resp.game_id # Some(draft_cache[b].game_id)

\* the team a validation key of the fresh install was issued for
KeyTeam(k) == FreshInstall.validation_keys[k]

\* the keys whose activation was answered 502: validated, hence marked used,
\* and never answered 200
FailedActivations == {k \in used_keys : Count(activated, k) = 0}

\* C31: when /activate answers 502 because the activation row could not be
\* written, the validation key is already in the used set and gone from the
\* active mapping and the team's token is already in the token table; every
\* retry with the same key is answered 400 "validation key already used"
\* and carries no bearer.
C31_FailedActivationConsumesKey ==
    /\ \A k \in RequestKeys, hex \in Uuids, t \in now..MaxNow, f \in Fails :
         LET o == activate(k, hex, t, f)
         IN  o.resp.status = 502 =>
               /\ k \in DOMAIN validation_keys
               /\ k \in o.used_keys
               /\ k \notin DOMAIN o.validation_keys
               /\ TokensOf(o.api_keys, validation_keys[k]) # {}
               /\ o.resp.bearer = None
    /\ \A k \in FailedActivations :
         /\ k \notin DOMAIN validation_keys
         /\ TokensOf(api_keys, KeyTeam(k)) # {}
         /\ \A hex \in Uuids, t \in now..MaxNow, f \in Fails :
              LET retry == activate(k, hex, t, f)
              IN  /\ retry.resp = _error(400, "validation key already used")
                  /\ retry.resp.bearer = None
                  /\ retry.used_keys = used_keys
                  /\ retry.api_keys = api_keys

C31_Witness ==
    /\ enabled
    /\ faults >= 1
    /\ FailedActivations # {}

\* the ban and pick columns of a row
DraftColumns ==
    (GAME_COLUMNS_SET \ POSITION_COLUMNS)
       \ {"game_id", "date", "opposite_team", "game_number", "patch", "tr",
          "side", "win"}

\* the non-empty ban and pick entries of a row field map
NonEmptyDraftEntries(row_data) ==
    Cardinality({k \in DOMAIN row_data \cap DraftColumns : row_data[k] # ""})

\* draft payloads richer than a stored draft that carry empty values for
\* columns already filled
ErasingDrafts ==
    {("BP1" :> "" @@ "BP3" :> "Ahri" @@ "BP4" :> "Zed"),
     ("BP1" :> "" @@ "BP2" :> "" @@ "hack" :> "a" @@ "hack2" :> "b"
        @@ "hack3" :> "c")}

\* C32: an accepted draft_complete never replaces a non-empty entry of the
\* session's row field map with an empty value, and the number of non-empty
\* ban and pick entries of the stored row never decreases.
C32_DraftEntriesNeverEmptied ==
    \A t \in DOMAIN draft_cache, f \in Fails :
      \A draft \in DraftPayloads \cup ErasingDrafts :
         LET old == draft_cache[t].row_data
             o   == draft_complete(t, draft_cache[t].game_id, draft, f)
         IN  o.resp.status = 200 =>
               LET new == o.draft_cache[t].row_data
               IN  /\ \A k \in DOMAIN old : old[k] # "" => new[k] # ""
                   /\ NonEmptyDraftEntries(new) >= NonEmptyDraftEntries(old)

====
